---- MODULE Spec2Model ----
(***************************************************************************)
(* TravelSmart: the orchestration core (TravelOrchestrator over MCPClient  *)
(* and GPTService), the booking path and the planning endpoints of the     *)
(* API, CacheManager and the cache keys, RecommendationEngine under the    *)
(* cached_result decorator with its score and its parser, the sessions of  *)
(* MCPClient, and the ConnectionManager of the WebSocket endpoint.         *)
(*                                                                         *)
(* Python values are modelled as follows.  None is the string "None".  A   *)
(* dict is a record, so that `"k" in d` is  "k" \in DOMAIN d.  A list is a *)
(* sequence.  An exception is a record [type, args] and str(e) is Str(e).  *)
(* What a coroutine hands to its awaiter is an outcome: Return(v) or       *)
(* Raise(e).                                                               *)
(***************************************************************************)
EXTENDS Integers, Sequences, FiniteSets, TLC

VARIABLES
    travel_request,   \* plan_trip: the TravelRequest being planned
    pc,               \* plan_trip: where the coroutine is suspended
    wTask, iTask,     \* plan_trip: state of the weather / insights task of the gather
    lookups,          \* what each of the four lookups of this plan_trip ended with
    weather_data,     \* plan_trip: local
    insights_data,    \* plan_trip: local
    travel_plan,      \* plan_trip: local
    flights,          \* plan_trip: local
    result,           \* plan_trip: the dict returned
    gptCalls,         \* calls received by GPTService.generate_travel_plan
    trace,            \* begin/end events of the five collaborator calls, in order
    answers,          \* what each backend answered to this plan_trip's lookups
    completion,       \* what the language model answered to this plan_trip
    backendCalls,     \* payloads posted to the MCP servers, in order
    toolResults,      \* each finished call_tool: its client, the answer, its outcome
    session,          \* MCPClient.session of each of the orchestrator's clients
    log,              \* logger.error records, in order
    endpoint,         \* booking: the API handler serving the booking request
    bpc,              \* booking: where that handler is
    booking_data,     \* booking: the request body
    bookResult,       \* booking: what book_trip ended with
    httpResponse,     \* booking: what the handler answered
    background_tasks, \* booking: tasks added to the response's BackgroundTasks
    db_bookings,      \* rows of the bookings table (db_manager)
    outbox,           \* confirmation mails handed to SMTP
    server_bookings,  \* BookingServer.bookings
    server_pending,   \* the booking server's answer on its way back
    confirmations,    \* booking ids the booking client received with success
    nRequests,        \* booking requests served so far
    apiEndpoint,      \* planning API: the handler serving the request
    apc,              \* planning API: where that handler is
    apiRequest,       \* planning API: the request body
    validation,       \* planning API: what validate_dates returned
    planCalls,        \* requests orchestrator.plan_trip was invoked with
    planCompletion,   \* what the language model answered to that plan_trip
    planResult,       \* planning API: what plan_trip returned
    personalized,     \* planning API: what get_personalized_recommendations ended with
    apiResponse,      \* planning API: what the handler answered
    apiTasks,         \* planning API: tasks added to BackgroundTasks
    savedTrips,       \* trip ids save_trip_data has logged
    cache,            \* CacheManager._cache: key -> entry
    lock,             \* CacheManager._lock: "free" or the caller holding it
    now,              \* datetime.now(), in seconds
    callers,          \* each concurrent caller of the CacheManager: its call
    lastSet,          \* per key, the most recent set not deleted or cleared since
    committed,        \* the store as the last completed operation left it
    derivations,      \* cache keys derived so far: function, call, query, key
    memo,             \* cached_result: the `cache` dict of get_personalized_recommendations
    recCallers,       \* each caller of the recommendation engine: its call
    lastDone,         \* the last recommendation call that returned: query and time
    lastFailed,       \* the last recommendation call that raised: query and time
    scored,           \* _calculate_personalization_score: the last inputs and scores
    parsed,           \* _parse_similar_destinations_response: the last response and its parse
    sessions,         \* every aiohttp.ClientSession created: its owner, whether closed
    held,             \* MCPClient.session of each client: a session, or 0 for None
    health,           \* the last health_check: its client, the probe, the result
    discarded,        \* whether the orchestrator and its clients have been discarded
    active_connections, \* ConnectionManager.active_connections
    user_connections, \* ConnectionManager.user_connections: user id -> socket
    sockets,          \* each WebSocket: where its handle_connection is, its user id
    broadcast         \* the running broadcast: its position, iterator and locals

planVars == <<travel_request, pc, wTask, iTask, lookups, weather_data,
              insights_data, travel_plan, flights, result, gptCalls, trace,
              answers, completion>>
clientVars == <<backendCalls, toolResults, session, log>>
bookVars == <<endpoint, bpc, booking_data, bookResult, httpResponse,
              background_tasks, db_bookings, outbox, server_bookings,
              server_pending, confirmations, nRequests>>
apiVars == <<apiEndpoint, apc, apiRequest, validation, planCalls, planCompletion,
             planResult, personalized, apiResponse, apiTasks, savedTrips>>
cacheVars == <<cache, lock, now, callers, lastSet, committed>>
keyVars == <<derivations>>
recVars == <<memo, recCallers, lastDone, lastFailed>>
scoreVars == <<scored>>
parseVars == <<parsed>>
mcpVars == <<sessions, held, health, discarded>>
connVars == <<active_connections, user_connections, sockets, broadcast>>
utilVars == <<apiVars, cacheVars, keyVars, recVars, scoreVars, parseVars, mcpVars, connVars>>
vars == <<planVars, clientVars, bookVars, utilVars>>

-----------------------------------------------------------------------------
(* Python values *)

None == "None"

Return(v) == [kind |-> "return", value |-> v]
Raise(e) == [kind |-> "raise", exc |-> e]
NoOutcome == [kind |-> "none"]

Exc(type, args) == [type |-> type, args |-> args]

\* str(e) of an exception with zero or one argument.
Str(e) == IF e.args = <<>> THEN "" ELSE e.args[1]

\* Truthiness of a str-or-None payload (None and "" are falsy).
Truthy(v) == v # None /\ v # ""

-----------------------------------------------------------------------------
(* The environment: what a backend or the language model answers *)

Clients == {"weather", "travel-insights", "booking"}

TravelRequests ==
    { [destination |-> "Paris", departure_city |-> "New York",
       start_date |-> "2024-07-01", end_date |-> "2024-07-07",
       budget |-> 2000, travel_type |-> "leisure", party_size |-> 2],
      [destination |-> "Tokyo", departure_city |-> "Dublin",
       start_date |-> "2024-06-01", end_date |-> "2024-06-07",
       budget |-> 3000, travel_type |-> "business", party_size |-> 1] }

WeatherPayloads == {"weather:sunny", "weather:rain"}
InsightsPayloads == {"insights:great city"}
FlightPayloads == { <<"FL001", "FL002">>, <<>> }
HotelPayloads == { <<"HT001", "HT002">> }

\* An HTTP response: its status, whether its body parses as JSON, its body.
Http(status, json, body) ==
    [kind |-> "http", status |-> status, json |-> json, body |-> body]

\* The backend gave a payload: status 200 with a JSON body.
Succeeded(resp) == resp.kind = "http" /\ resp.status = 200 /\ resp.json

\* No response at all: the connection is refused, or the 30 s total timeout
\* of the session (mcp_client.py:24) runs out.
TransportFailures == { [kind |-> "refused"], [kind |-> "timeout"] }

\* Answers that carry no payload: a server error, the servers' own 400
\* (HTTPException with a JSON detail), a 200 whose body is not JSON.
ErrorResponses ==
    { Http(500, FALSE, "Internal Server Error"),
      Http(400, TRUE, "Unknown tool"),
      Http(200, FALSE, "<html>") }
    \cup TransportFailures

Responses(payloads) ==
    { Http(200, TRUE, p) : p \in payloads } \cup ErrorResponses

\* What chat.completions.create gives: a response with its choices' message
\* contents (content is Optional[str]), or an error of the OpenAI client.
Completions ==
    { [kind |-> "response", choices |-> <<c>>] :
          c \in {"Great travel plan", "", None} }
    \cup { [kind |-> "response", choices |-> <<>>] }
    \cup { [kind |-> "error", exc |-> e] :
          e \in { Exc("APIConnectionError", <<"Connection error.">>),
                  Exc("RateLimitError", <<"Error code: 429">>) } }

-----------------------------------------------------------------------------
(* MCPClient *)

\* _get_session: a client without an open session opens one.
GetSession(s) == IF s \in {"none", "closed"} THEN "open" ELSE s

\* The exception aiohttp raises when no response arrives.
TransportError(resp) ==
    IF resp.kind = "refused"
    THEN Exc("ClientConnectorError", <<"Cannot connect to host">>)
    ELSE Exc("TimeoutError", <<>>)

IsClientError(e) == e.type \in {"ClientConnectorError", "ContentTypeError"}

\* The exception raised inside the try block of call_tool, if any.
CallToolRaised(resp) ==
    IF resp.kind # "http" THEN Raise(TransportError(resp))
    ELSE IF resp.status # 200
    THEN Raise(Exc("Exception", <<"MCP server error: " \o ToString(resp.status)>>))
    ELSE IF ~resp.json
    THEN Raise(Exc("ContentTypeError", <<"Attempt to decode JSON with unexpected mimetype">>))
    ELSE NoOutcome

\* Mutant of CallTool: the handlers log the failure and return None instead of
\* re-raising.
CallToolSwallow(server_name, resp) ==
    IF CallToolRaised(resp).kind = "raise"
    THEN Return(None)
    ELSE Return(resp.body)

\* call_tool: the parsed body on status 200; otherwise the exception, which both
\* handlers re-raise.
CallTool(server_name, resp) ==
    IF CallToolRaised(resp).kind = "raise"
    THEN CallToolRaised(resp)
    ELSE Return(resp.body)

\* The logger.error records call_tool writes.
CallToolLog(server_name, resp) ==
    LET r == CallToolRaised(resp)
        first == IF resp.kind = "http" /\ resp.status # 200
                 THEN << "MCP " \o server_name \o " error: "
                         \o ToString(resp.status) \o " - " \o resp.body >>
                 ELSE <<>>
    IN  IF r.kind # "raise" THEN <<>>
        ELSE IF IsClientError(r.exc)
        THEN first \o << "Network error calling MCP " \o server_name
                         \o ": " \o Str(r.exc) >>
        ELSE first \o << "Unexpected error calling MCP " \o server_name
                         \o ": " \o Str(r.exc) >>

\* The JSON posted to {base_url}/call.
Payload(server_name, tool_name, parameters) ==
    [server |-> server_name, tool |-> tool_name, parameters |-> parameters]

-----------------------------------------------------------------------------
(* GPTService *)

\* Mutant of GenerateTravelPlan: the except block swallows the error and
\* returns None instead of re-raising.
GenerateTravelPlanSwallow(response) ==
    IF response.kind = "error" THEN Return(None)
    ELSE IF response.choices = <<>> THEN Return(None)
    ELSE Return(response.choices[1])

\* generate_travel_plan: choices[0].message.content, or the error re-raised.
GenerateTravelPlan(response) ==
    IF response.kind = "error" THEN Raise(response.exc)
    ELSE IF response.choices = <<>>
    THEN Raise(Exc("IndexError", <<"list index out of range">>))
    ELSE Return(response.choices[1])

\* The two data lines of the user prompt.
UserPrompt(weather, insights) ==
    [weather |-> IF Truthy(weather) THEN weather ELSE "Not available",
     insights |-> IF Truthy(insights) THEN insights ELSE "Not available"]

-----------------------------------------------------------------------------
(* TravelOrchestrator: the four lookups *)

\* Mutant of GetWeatherData: no try/except around call_tool.
GetWeatherDataNoCatch(outcome) == outcome

GetWeatherData(outcome) ==
    IF outcome.kind = "raise" THEN Return(None) ELSE outcome

GetTravelInsights(outcome) ==
    IF outcome.kind = "raise" THEN Return(None) ELSE outcome

\* Mutant of SearchFlights: no try/except around call_tool.
SearchFlightsNoCatch(outcome) == outcome

SearchFlights(outcome) ==
    IF outcome.kind = "raise" THEN Return(<<>>) ELSE outcome

SearchHotels(outcome) ==
    IF outcome.kind = "raise" THEN Return(<<>>) ELSE outcome

\* The logger.error record of a lookup whose call_tool raised.
LookupLog(what, outcome) ==
    IF outcome.kind = "raise" THEN << what \o ": " \o Str(outcome.exc) >> ELSE <<>>

WeatherParameters(r) ==
    [location |-> r.destination, start_date |-> r.start_date,
     end_date |-> r.end_date]

InsightsParameters(r) ==
    [destination |-> r.destination, travel_type |-> r.travel_type,
     party_size |-> r.party_size]

FlightParameters(r) ==
    [origin |-> r.departure_city, destination |-> r.destination,
     departure_date |-> r.start_date, return_date |-> r.end_date,
     passengers |-> r.party_size, budget |-> r.budget]

HotelParameters(r) ==
    [destination |-> r.destination, check_in |-> r.start_date,
     check_out |-> r.end_date, guests |-> r.party_size, budget |-> r.budget]

-----------------------------------------------------------------------------
(* CacheManager: values *)

Callers == {"c1", "c2"}
CacheKeys == {"k1", "k2"}
\* The (value, ttl_seconds) pairs callers store.
CacheWrites == { <<"v1", 1>>, <<"v2", 2>> }

NoEntry == [data |-> None, expires_at |-> -1, created_at |-> -1]

\* No set of the key since it was last deleted or cleared.
NoWrite == [value |-> None, at |-> -1, ttl_seconds |-> 0]

\* A caller that is not inside a call.
IdleCaller ==
    [op |-> "none", key |-> None, value |-> None, ttl_seconds |-> 0,
     pc |-> "idle", entry |-> NoEntry, expired_keys |-> {}, at |-> 0,
     result |-> NoOutcome]

-----------------------------------------------------------------------------
(* MCPClient: values *)

\* No health_check has been made yet.
NoHealth == [client |-> "none", probe |-> [kind |-> "none"], result |-> NoOutcome]

-----------------------------------------------------------------------------
(* ConnectionManager: values *)

WebSockets == {"ws1", "ws2", "ws3"}

\* A socket no handle_connection has been started for.
NewSocket == [state |-> "new", user_id |-> None]

\* No broadcast is running.
NoBroadcast ==
    [pc |-> "idle", index |-> 0, disconnected |-> <<>>, sent |-> <<>>]

-----------------------------------------------------------------------------
(* RecommendationEngine: values *)

RecCallers == {"r1", "r2"}

\* A caller that is not inside a call.
IdleRecCaller ==
    [op |-> "none", pc |-> "idle", started |-> 0, hit |-> FALSE,
     answer |-> NoOutcome, result |-> NoOutcome]

\* No recommendation call has returned yet.
NoCall == [op |-> "none", at |-> -1]

-----------------------------------------------------------------------------
(* TravelOrchestrator.plan_trip *)

NoRequest == [destination |-> None]
NoAnswer == [kind |-> "none"]
Lookups == {"weather", "insights", "flights", "hotels"}

\* Mutant of Gathered: the isinstance test is inverted, so that a fetched
\* payload is the one replaced by None.
GatheredInverted(r) == IF r.kind = "raise" THEN Str(r.exc) ELSE None

\* An element of the gather's result list (return_exceptions=True): an
\* exception among them is replaced by None.
Gathered(r) == IF r.kind = "raise" THEN None ELSE r.value

SuccessResult(plan, weather, insights, fl, ho, request) ==
    [status |-> "success", travel_plan |-> plan, weather_forecast |-> weather,
     local_insights |-> insights, flight_options |-> fl, hotel_options |-> ho,
     request |-> request]

ErrorResult(e, request) ==
    [status |-> "error", message |-> Str(e), request |-> request]

NoResult == [status |-> "none"]

\* What plan_trip does with the outcome of an awaited call: an exception goes
\* to its except block, a value lets it go on.
Caught(outcome) == outcome.kind = "raise"

\* A call_tool that has finished.
ToolResult(server_name, resp) ==
    [server |-> server_name, answer |-> resp,
     outcome |-> CallTool(server_name, resp),
     logged |-> CallToolLog(server_name, resp)]

Init ==
    /\ travel_request = NoRequest
    /\ pc = "idle"
    /\ wTask = "none" /\ iTask = "none"
    /\ lookups = [l \in Lookups |-> NoOutcome]
    /\ weather_data = None /\ insights_data = None
    /\ travel_plan = None
    /\ flights = <<>>
    /\ result = NoResult
    /\ gptCalls = <<>>
    /\ trace = <<>>
    /\ answers = [l \in Lookups |-> NoAnswer]
    /\ completion = NoAnswer
    /\ backendCalls = <<>>
    /\ toolResults = <<>>
    /\ session = [c \in Clients |-> "none"]
    /\ log = <<>>
    /\ endpoint = "none"
    /\ bpc = "idle"
    /\ booking_data = NoRequest
    /\ bookResult = NoOutcome
    /\ httpResponse = NoAnswer
    /\ background_tasks = <<>>
    /\ db_bookings = {}
    /\ outbox = <<>>
    /\ server_bookings = {}
    /\ server_pending = NoAnswer
    /\ confirmations = {}
    /\ nRequests = 0
    /\ apiEndpoint = "none"
    /\ apc = "idle"
    /\ apiRequest = NoRequest
    /\ validation = NoAnswer
    /\ planCalls = <<>>
    /\ planCompletion = NoAnswer
    /\ planResult = NoResult
    /\ personalized = NoOutcome
    /\ apiResponse = NoAnswer
    /\ apiTasks = <<>>
    /\ savedTrips = {}
    /\ cache = <<>>
    /\ lock = "free"
    /\ now = 0
    /\ callers = [c \in Callers |-> IdleCaller]
    /\ lastSet = [k \in CacheKeys |-> NoWrite]
    /\ committed = <<>>
    /\ derivations = <<>>
    /\ memo = <<>>
    /\ recCallers = [c \in RecCallers |-> IdleRecCaller]
    /\ lastDone = NoCall
    /\ lastFailed = NoCall
    /\ scored = <<>>
    /\ parsed = [response |-> <<>>, destinations |-> <<>>]
    /\ sessions = <<>>
    /\ held = [c \in Clients |-> 0]
    /\ health = NoHealth
    /\ discarded = FALSE
    /\ active_connections = <<>>
    /\ user_connections = <<>>
    /\ sockets = [w \in WebSockets |-> NewSocket]
    /\ broadcast = NoBroadcast

\* Mutant of PlanTripDispatch: the lookups are awaited one after the other, so
\* that the insights coroutine is not started while the weather one runs.
PlanTripDispatchSequential ==
    /\ pc \in {"idle", "done"}
    /\ \E r \in TravelRequests : travel_request' = r
    /\ wTask' = "scheduled" /\ iTask' = "created"
    /\ lookups' = [l \in Lookups |-> NoOutcome]
    /\ weather_data' = None /\ insights_data' = None
    /\ travel_plan' = None
    /\ flights' = <<>>
    /\ result' = NoResult
    /\ gptCalls' = <<>>
    /\ trace' = <<>>
    /\ answers' = [l \in Lookups |-> NoAnswer]
    /\ completion' = NoAnswer
    /\ backendCalls' = <<>>
    /\ toolResults' = <<>>
    /\ log' = <<>>
    /\ pc' = "gather"
    /\ UNCHANGED session
    /\ UNCHANGED <<bookVars, utilVars>>

\* plan_trip is called; it runs to its first suspension, the await of the
\* gather, which wraps both coroutines in tasks and schedules both.
PlanTripDispatch ==
    /\ pc \in {"idle", "done"}
    /\ \E r \in TravelRequests : travel_request' = r
    /\ wTask' = "scheduled" /\ iTask' = "scheduled"
    /\ lookups' = [l \in Lookups |-> NoOutcome]
    /\ weather_data' = None /\ insights_data' = None
    /\ travel_plan' = None
    /\ flights' = <<>>
    /\ result' = NoResult
    /\ gptCalls' = <<>>
    /\ trace' = <<>>
    /\ answers' = [l \in Lookups |-> NoAnswer]
    /\ completion' = NoAnswer
    /\ backendCalls' = <<>>
    /\ toolResults' = <<>>
    /\ log' = <<>>
    /\ pc' = "gather"
    /\ UNCHANGED session
    /\ UNCHANGED <<bookVars, utilVars>>

\* The weather task's first step: get_weather_data runs into call_tool, which
\* takes the session and posts; the task is suspended until the answer.
\* The loop runs ready tasks in the order they were scheduled: weather first.
WeatherBegin ==
    /\ wTask = "scheduled"
    /\ wTask' = "awaiting"
    /\ session' = [session EXCEPT !["weather"] = GetSession(@)]
    /\ backendCalls' = Append(backendCalls,
           Payload("weather", "get_weather_forecast",
                   WeatherParameters(travel_request)))
    /\ trace' = Append(trace, "weather_begin")
    /\ UNCHANGED <<travel_request, pc, iTask, lookups, weather_data,
                   insights_data, travel_plan, flights, result, gptCalls,
                   answers, completion, toolResults, log>>
    /\ UNCHANGED <<bookVars, utilVars>>

InsightsBegin ==
    /\ iTask = "scheduled"
    /\ wTask # "scheduled"
    /\ iTask' = "awaiting"
    /\ session' = [session EXCEPT !["travel-insights"] = GetSession(@)]
    /\ backendCalls' = Append(backendCalls,
           Payload("travel-insights", "get_destination_insights",
                   InsightsParameters(travel_request)))
    /\ trace' = Append(trace, "insights_begin")
    /\ UNCHANGED <<travel_request, pc, wTask, lookups, weather_data,
                   insights_data, travel_plan, flights, result, gptCalls,
                   answers, completion, toolResults, log>>
    /\ UNCHANGED <<bookVars, utilVars>>

\* The weather backend answers (or fails to): call_tool returns or raises and
\* get_weather_data ends.  An answer is handled only after the tasks that were
\* ready before it arrived have run.
WeatherComplete ==
    /\ wTask = "awaiting"
    /\ iTask # "scheduled"
    /\ \E resp \in Responses(WeatherPayloads) :
         LET c == CallTool("weather", resp) IN
         /\ answers' = [answers EXCEPT !["weather"] = resp]
         /\ toolResults' = Append(toolResults, ToolResult("weather", resp))
         /\ lookups' = [lookups EXCEPT !["weather"] = GetWeatherData(c)]
         /\ log' = log \o CallToolLog("weather", resp)
                       \o LookupLog("Error getting weather data", c)
    /\ wTask' = "done"
    /\ trace' = Append(trace, "weather_end")
    /\ UNCHANGED <<travel_request, pc, iTask, weather_data, insights_data,
                   travel_plan, flights, result, gptCalls, completion,
                   backendCalls, session>>
    /\ UNCHANGED <<bookVars, utilVars>>

InsightsComplete ==
    /\ iTask = "awaiting"
    /\ \E resp \in Responses(InsightsPayloads) :
         LET c == CallTool("travel-insights", resp) IN
         /\ answers' = [answers EXCEPT !["insights"] = resp]
         /\ toolResults' = Append(toolResults,
                                  ToolResult("travel-insights", resp))
         /\ lookups' = [lookups EXCEPT !["insights"] = GetTravelInsights(c)]
         /\ log' = log \o CallToolLog("travel-insights", resp)
                       \o LookupLog("Error getting travel insights", c)
    /\ iTask' = "done"
    /\ trace' = Append(trace, "insights_end")
    /\ UNCHANGED <<travel_request, pc, wTask, weather_data, insights_data,
                   travel_plan, flights, result, gptCalls, completion,
                   backendCalls, session>>
    /\ UNCHANGED <<bookVars, utilVars>>

\* Mutant of PlanTripJoin: the wait returns when the first of the two tasks is
\* done (FIRST_COMPLETED), the other counting as None.
PlanTripJoinFirstCompleted ==
    LET got(l) == IF lookups[l].kind = "none" THEN None
                  ELSE Gathered(lookups[l])
    IN
    /\ pc = "gather"
    /\ wTask = "done" \/ iTask = "done"
    /\ weather_data' = got("weather")
    /\ insights_data' = got("insights")
    /\ gptCalls' = Append(gptCalls,
           [request |-> travel_request,
            weather_data |-> weather_data',
            local_insights |-> insights_data',
            prompt |-> UserPrompt(weather_data', insights_data')])
    /\ log' = log
    /\ trace' = Append(trace, "gpt_begin")
    /\ pc' = "gpt"
    /\ UNCHANGED <<travel_request, wTask, iTask, lookups, travel_plan, flights,
                   result, answers, completion, backendCalls, toolResults,
                   session>>
    /\ UNCHANGED <<bookVars, utilVars>>

\* Both tasks of the gather are done: plan_trip resumes, replaces exceptions
\* by None and calls generate_travel_plan, which builds the prompt and awaits
\* the completion.
PlanTripJoin ==
    /\ pc = "gather"
    /\ wTask = "done" /\ iTask = "done"
    /\ weather_data' = Gathered(lookups["weather"])
    /\ insights_data' = Gathered(lookups["insights"])
    /\ gptCalls' = Append(gptCalls,
           [request |-> travel_request,
            weather_data |-> weather_data',
            local_insights |-> insights_data',
            prompt |-> UserPrompt(weather_data', insights_data')])
    /\ log' = log \o LookupLog("Weather data error", lookups["weather"])
                  \o LookupLog("Insights data error", lookups["insights"])
    /\ trace' = Append(trace, "gpt_begin")
    /\ pc' = "gpt"
    /\ UNCHANGED <<travel_request, wTask, iTask, lookups, travel_plan, flights,
                   result, answers, completion, backendCalls, toolResults,
                   session>>
    /\ UNCHANGED <<bookVars, utilVars>>

\* The except block of plan_trip.
PlanTripExcept(e) ==
    /\ result' = ErrorResult(e, travel_request)
    /\ pc' = "done"

\* The completion arrives (or the OpenAI client raises).  On a narrative,
\* plan_trip goes on into search_flights, which posts and awaits.
GptComplete ==
    /\ pc = "gpt"
    /\ \E c \in Completions :
         LET o == GenerateTravelPlan(c) IN
         /\ completion' = c
         /\ IF Caught(o)
            THEN /\ PlanTripExcept(o.exc)
                 /\ log' = log \o LookupLog("Error generating travel plan", o)
                               \o LookupLog("Error planning trip", o)
                 /\ trace' = Append(trace, "gpt_raise")
                 /\ UNCHANGED <<travel_plan, backendCalls, session>>
            ELSE /\ travel_plan' = o.value
                 /\ session' = [session EXCEPT !["booking"] = GetSession(@)]
                 /\ backendCalls' = Append(backendCalls,
                        Payload("booking", "search_flights",
                                FlightParameters(travel_request)))
                 /\ trace' = trace \o <<"gpt_return", "flights_begin">>
                 /\ pc' = "flights"
                 /\ UNCHANGED <<result, log>>
    /\ UNCHANGED <<travel_request, wTask, iTask, lookups, weather_data,
                   insights_data, flights, gptCalls, answers, toolResults>>
    /\ UNCHANGED <<bookVars, utilVars>>

\* The flight search ends; plan_trip goes on into search_hotels.
FlightsComplete ==
    /\ pc = "flights"
    /\ \E resp \in Responses(FlightPayloads) :
         LET c == CallTool("booking", resp)
             o == SearchFlights(c)
             l == log \o CallToolLog("booking", resp)
                      \o LookupLog("Error searching flights", c)
         IN
         /\ answers' = [answers EXCEPT !["flights"] = resp]
         /\ toolResults' = Append(toolResults, ToolResult("booking", resp))
         /\ lookups' = [lookups EXCEPT !["flights"] = o]
         /\ IF Caught(o)
            THEN /\ PlanTripExcept(o.exc)
                 /\ log' = l \o LookupLog("Error planning trip", o)
                 /\ trace' = Append(trace, "flights_raise")
                 /\ UNCHANGED <<flights, backendCalls>>
            ELSE /\ flights' = o.value
                 /\ log' = l
                 /\ backendCalls' = Append(backendCalls,
                        Payload("booking", "search_hotels",
                                HotelParameters(travel_request)))
                 /\ trace' = trace \o <<"flights_end", "hotels_begin">>
                 /\ pc' = "hotels"
                 /\ UNCHANGED result
    /\ UNCHANGED <<travel_request, wTask, iTask, weather_data, insights_data,
                   travel_plan, gptCalls, completion, session>>
    /\ UNCHANGED <<bookVars, utilVars>>

\* The hotel search ends; plan_trip assembles and returns the plan.
HotelsComplete ==
    /\ pc = "hotels"
    /\ \E resp \in Responses(HotelPayloads) :
         LET c == CallTool("booking", resp)
             o == SearchHotels(c)
             l == log \o CallToolLog("booking", resp)
                      \o LookupLog("Error searching hotels", c)
         IN
         /\ answers' = [answers EXCEPT !["hotels"] = resp]
         /\ toolResults' = Append(toolResults, ToolResult("booking", resp))
         /\ lookups' = [lookups EXCEPT !["hotels"] = o]
         /\ IF Caught(o)
            THEN /\ PlanTripExcept(o.exc)
                 /\ log' = l \o LookupLog("Error planning trip", o)
                 /\ trace' = Append(trace, "hotels_raise")
            ELSE /\ result' = SuccessResult(travel_plan, weather_data,
                                            insights_data, flights, o.value,
                                            travel_request)
                 /\ log' = l
                 /\ trace' = Append(trace, "hotels_end")
                 /\ pc' = "done"
    /\ UNCHANGED <<travel_request, wTask, iTask, weather_data, insights_data,
                   travel_plan, flights, gptCalls, completion, backendCalls,
                   session>>
    /\ UNCHANGED <<bookVars, utilVars>>

Next ==
    \/ PlanTripDispatch
    \/ WeatherBegin
    \/ InsightsBegin
    \/ WeatherComplete
    \/ InsightsComplete
    \/ PlanTripJoin
    \/ GptComplete
    \/ FlightsComplete
    \/ HotelsComplete

Spec == Init /\ [][Next]_vars

-----------------------------------------------------------------------------
(* The booking path: BookingServer.book_trip, TravelOrchestrator.book_trip,  *)
(* the /book-trip handler of api/main.py and the /api/v2/book-trip handler   *)
(* of api/enhanced_main.py with its background tasks                         *)

MaxBookingRequests == 2

BookingRequests ==
    { [user_id |-> "user123", flights |-> <<"AF001">>, hotels |-> <<"HT001">>,
       status |-> "draft"],
      [user_id |-> "user123", flights |-> <<"AF001">>, hotels |-> <<"HT001">>,
       contact_info |-> [email |-> "ann@example.com"]],
      [user_id |-> "user456", flights |-> <<"DL123">>, hotels |-> <<>>,
       contact_info |-> [phone |-> "555-0100"]] }

\* {**a, **b}
Merge(a, b) ==
    [k \in DOMAIN a \cup DOMAIN b |-> IF k \in DOMAIN b THEN b[k] ELSE a[k]]

\* BookingServer.book_trip: the n-th booking of the server and its answer.
ServerBooking(n) ==
    [booking_id |-> "booking-" \o ToString(n), status |-> "confirmed",
     confirmation_number |-> "TS-" \o ToString(n), total_cost |-> 1000,
     booking_date |-> "server clock"]

ServerConfirmation(n) ==
    [success |-> TRUE, booking_id |-> "booking-" \o ToString(n),
     confirmation_number |-> "TS-" \o ToString(n), total_cost |-> 1000,
     status |-> "confirmed"]

\* Mutant of BookTrip: no try/except around call_tool.
BookTripNoCatch(outcome) == outcome

\* TravelOrchestrator.book_trip, given what call_tool ended with.
BookTrip(outcome) ==
    IF outcome.kind = "raise"
    THEN Return([status |-> "error", message |-> Str(outcome.exc)])
    ELSE outcome

\* result.get("success")
ReportsSuccess(res) == "success" \in DOMAIN res /\ res.success = TRUE

\* booking_data.get("contact_info", {}).get("email")
ContactEmail(data) ==
    IF "contact_info" \in DOMAIN data /\ "email" \in DOMAIN data.contact_info
    THEN data.contact_info.email
    ELSE None

EnhancedBooking(data, res) ==
    Merge(Merge(data, res),
          [booking_date |-> "api clock", status |-> "confirmed"])

\* Mutant of ScheduledTasks: the tasks are added without looking at
\* result.get("success").
ScheduledTasksUnguarded(data, res) ==
    << [fn |-> "save_booking_data", booking |-> EnhancedBooking(data, res)] >>
    \o (IF Truthy(ContactEmail(data))
        THEN << [fn |-> "send_booking_confirmation",
                 to |-> ContactEmail(data),
                 booking |-> EnhancedBooking(data, res)] >>
        ELSE <<>>)

\* The tasks book_enhanced_trip adds for the result of book_trip.
ScheduledTasks(data, res) ==
    IF ReportsSuccess(res)
    THEN << [fn |-> "save_booking_data", booking |-> EnhancedBooking(data, res)] >>
         \o (IF Truthy(ContactEmail(data))
             THEN << [fn |-> "send_booking_confirmation",
                      to |-> ContactEmail(data),
                      booking |-> EnhancedBooking(data, res)] >>
             ELSE <<>>)
    ELSE <<>>

\* The exception raised inside book_enhanced_trip's try block, if any:
\* book_trip's, or the KeyError of result["booking_id"].
EnhancedRaised(o) ==
    IF o.kind = "raise" THEN o
    ELSE IF ReportsSuccess(o.value) /\ "booking_id" \notin DOMAIN o.value
    THEN Raise(Exc("KeyError", <<"'booking_id'">>))
    ELSE NoOutcome

HttpError(e) == [status |-> 500, detail |-> Str(e)]
HttpOk(body) == [status |-> 200, body |-> body]

\* DatabaseManager.save_booking: the row inserted.
BookingRow(b) ==
    [id |-> b.booking_id,
     user_id |-> IF "user_id" \in DOMAIN b THEN b.user_id ELSE "anonymous",
     status |-> IF "status" \in DOMAIN b THEN b.status ELSE "pending",
     total_cost |-> IF "total_cost" \in DOMAIN b THEN b.total_cost ELSE 0,
     booking_data |-> b]

\* The answers a book_trip call can get: the server's confirmation or its loss
\* once the server has handled the call, a failure before that.
BookResponses ==
    IF server_pending.kind = "none"
    THEN ErrorResponses
    ELSE { Http(200, TRUE, server_pending.body), [kind |-> "timeout"] }

\* A booking request arrives at a handler, which calls book_trip, which calls
\* call_tool, which posts to the booking server and awaits.
BookBegin(handler) ==
    /\ bpc \in {"idle", "responded"}
    /\ background_tasks = <<>>
    /\ nRequests < MaxBookingRequests
    /\ nRequests' = nRequests + 1
    /\ \E d \in BookingRequests :
         /\ booking_data' = d
         /\ backendCalls' = << Payload("booking", "book_trip", d) >>
    /\ endpoint' = handler
    /\ bpc' = "awaiting"
    /\ session' = [session EXCEPT !["booking"] = GetSession(@)]
    /\ toolResults' = <<>>
    /\ log' = <<>>
    /\ bookResult' = NoOutcome
    /\ httpResponse' = NoAnswer
    /\ server_pending' = NoAnswer
    /\ UNCHANGED <<background_tasks, db_bookings, outbox, server_bookings,
                   confirmations>>
    /\ UNCHANGED <<planVars, utilVars>>

\* POST /book-trip (api/main.py)
BookTripBegin == BookBegin("book_trip")

\* POST /api/v2/book-trip (api/enhanced_main.py)
BookEnhancedTripBegin == BookBegin("book_enhanced_trip")

\* The booking server handles the posted call.
BookingServerBookTrip ==
    /\ bpc = "awaiting"
    /\ server_pending.kind = "none"
    /\ LET n == Cardinality(server_bookings) + 1 IN
         /\ server_bookings' = server_bookings \cup {ServerBooking(n)}
         /\ server_pending' = [kind |-> "answer", body |-> ServerConfirmation(n)]
    /\ UNCHANGED <<endpoint, bpc, booking_data, bookResult, httpResponse,
                   background_tasks, db_bookings, outbox, confirmations,
                   nRequests>>
    /\ UNCHANGED <<planVars, clientVars, utilVars>>

\* What both handlers share: call_tool ends, book_trip ends.
BookTripEnds(resp) ==
    /\ toolResults' = Append(toolResults, ToolResult("booking", resp))
    /\ bookResult' = BookTrip(CallTool("booking", resp))
    /\ log' = log \o CallToolLog("booking", resp)
                  \o LookupLog("Error booking trip", CallTool("booking", resp))
    /\ confirmations' =
           IF Succeeded(resp) /\ ReportsSuccess(resp.body)
           THEN confirmations \cup {resp.body.booking_id}
           ELSE confirmations
    /\ bpc' = "responded"
    /\ UNCHANGED <<endpoint, booking_data, db_bookings, outbox,
                   server_bookings, server_pending, nRequests, backendCalls,
                   session>>
    /\ UNCHANGED <<planVars, utilVars>>

\* main.book_trip gets book_trip's result and returns it.
BookTripReturn ==
    /\ bpc = "awaiting" /\ endpoint = "book_trip"
    /\ \E resp \in BookResponses :
         /\ BookTripEnds(resp)
         /\ httpResponse' =
                IF bookResult'.kind = "raise"
                THEN HttpError(bookResult'.exc)
                ELSE HttpOk(bookResult'.value)
    /\ UNCHANGED background_tasks

\* book_enhanced_trip gets book_trip's result, adds the background tasks and
\* returns the result; an exception drops the tasks with the response.
BookEnhancedTripReturn ==
    /\ bpc = "awaiting" /\ endpoint = "book_enhanced_trip"
    /\ \E resp \in BookResponses :
         /\ BookTripEnds(resp)
         /\ IF EnhancedRaised(bookResult').kind = "raise"
            THEN /\ httpResponse' = HttpError(EnhancedRaised(bookResult').exc)
                 /\ background_tasks' = <<>>
            ELSE /\ httpResponse' = HttpOk(bookResult'.value)
                 /\ background_tasks' =
                        ScheduledTasks(booking_data, bookResult'.value)

\* After the response, the next background task runs: save_booking_data
\* inserts the row (an insert that fails is logged and dropped);
\* send_booking_confirmation hands the mail to SMTP, which may fail.
RunBackgroundTask ==
    /\ bpc = "responded"
    /\ background_tasks # <<>>
    /\ LET t == Head(background_tasks) IN
         IF t.fn = "save_booking_data"
         THEN /\ IF /\ "booking_id" \in DOMAIN t.booking
                    /\ \A row \in db_bookings : row.id # t.booking.booking_id
                 THEN db_bookings' = db_bookings \cup {BookingRow(t.booking)}
                 ELSE UNCHANGED db_bookings
              /\ UNCHANGED outbox
         ELSE /\ \E sent \in BOOLEAN :
                   outbox' = IF sent
                             THEN Append(outbox,
                                    [to |-> t.to,
                                     confirmation_number |->
                                         IF "confirmation_number" \in DOMAIN t.booking
                                         THEN t.booking.confirmation_number
                                         ELSE "N/A",
                                     booking_id |->
                                         IF "booking_id" \in DOMAIN t.booking
                                         THEN t.booking.booking_id
                                         ELSE "N/A"])
                             ELSE outbox
              /\ UNCHANGED db_bookings
    /\ background_tasks' = Tail(background_tasks)
    /\ UNCHANGED <<endpoint, bpc, booking_data, bookResult, httpResponse,
                   server_bookings, server_pending, confirmations, nRequests>>
    /\ UNCHANGED <<planVars, clientVars, utilVars>>

NextBook ==
    \/ BookTripBegin
    \/ BookEnhancedTripBegin
    \/ BookingServerBookTrip
    \/ BookTripReturn
    \/ BookEnhancedTripReturn
    \/ RunBackgroundTask

SpecBook == Init /\ [][NextBook]_vars

-----------------------------------------------------------------------------
(* The planning endpoints: validate_dates, the /plan-trip handler of         *)
(* api/main.py and the /api/v2/plan-trip handler of api/enhanced_main.py.    *)
(* Dates are day numbers (date.toordinal).                                   *)

\* date.today()
Today == 1000

\* The longest trip validate_dates accepts, in days.
MaxTripDays == 365

PastReason == "Start date cannot be in the past"
OrderReason == "End date must be after start date"
SpanReason == "Trip duration cannot exceed 365 days"

\* Mutant of ValidateDates: a span of exactly 365 days is rejected too.
ValidateDatesExclusive(start_date, end_date) ==
    IF start_date < Today THEN <<FALSE, PastReason>>
    ELSE IF end_date <= start_date THEN <<FALSE, OrderReason>>
    ELSE IF end_date - start_date >= MaxTripDays THEN <<FALSE, SpanReason>>
    ELSE <<TRUE, None>>

\* validate_dates: the pair (is_valid, error_msg).
ValidateDates(start_date, end_date) ==
    IF start_date < Today THEN <<FALSE, PastReason>>
    ELSE IF end_date <= start_date THEN <<FALSE, OrderReason>>
    ELSE IF end_date - start_date > MaxTripDays THEN <<FALSE, SpanReason>>
    ELSE <<TRUE, None>>

StartDates == { Today - 1, Today, Today + 1 }
EndDates ==
    { Today - 1, Today, Today + 1,
      Today + MaxTripDays, Today + MaxTripDays + 1, Today + MaxTripDays + 2 }

\* A preference map, as the handler uses it: None, empty, or with entries.
Preferences == { None, "{}", "{activities: [museums]}" }

\* bool(request.preferences)
PreferencesGiven(p) == p # None /\ p # "{}"

\* Bodies FastAPI accepts as a PlanTripRequest: the fields have their types,
\* the dates are any two dates.
PlanTripRequests ==
    { [destination |-> "Paris", departure_city |-> "New York",
       start_date |-> s, end_date |-> e, budget |-> 2000,
       travel_type |-> "leisure", party_size |-> 2, preferences |-> p,
       special_requirements |-> None] :
         s \in StartDates, e \in EndDates, p \in {None} }

\* Bodies FastAPI accepts as an EnhancedTripRequest.
EnhancedTripRequests ==
    { [destination |-> "Paris", departure_city |-> "New York",
       start_date |-> s, end_date |-> e, budget |-> 2000,
       travel_type |-> "leisure", party_size |-> 2, preferences |-> p,
       special_requirements |-> None, user_id |-> u, contact_info |-> None] :
         s \in StartDates, e \in EndDates, p \in Preferences,
         u \in {None, "user123"} }

TravelRequestFields ==
    { "destination", "departure_city", "start_date", "end_date", "budget",
      "travel_type", "party_size", "preferences", "special_requirements" }

\* TravelRequest(**request.dict()): the fields TravelRequest declares.
TravelRequestOf(request) == [k \in TravelRequestFields |-> request[k]]

\* What a backend answers to a lookup of plan_trip: a payload, a server
\* error, or nothing before the timeout.
PlanAnswers(payloads) ==
    { Http(200, TRUE, p) : p \in payloads }
    \cup { Http(500, FALSE, "Internal Server Error"), [kind |-> "timeout"] }

\* plan_trip as a function of what its five collaborators answer: the two
\* gathered lookups, the narrative, the two searches.
PlanTripResult(request, w, i, c, f, h) ==
    LET weather == Gathered(GetWeatherData(CallTool("weather", w)))
        insights == Gathered(GetTravelInsights(CallTool("travel-insights", i)))
        plan == GenerateTravelPlan(c)
    IN  IF Caught(plan) THEN ErrorResult(plan.exc, request)
        ELSE SuccessResult(plan.value, weather, insights,
                           SearchFlights(CallTool("booking", f)).value,
                           SearchHotels(CallTool("booking", h)).value,
                           request)

\* str() of an HTTPException raised inside the handler's try block:
\* "<status>: <detail>" where Starlette defines __str__, "" where it does not.
HTTPExceptions(status, detail) ==
    { Exc("HTTPException", <<ToString(status) \o ": " \o detail>>),
      Exc("HTTPException", <<>>) }

\* What get_personalized_recommendations ends with: the report, or the error
\* of the language-model client, which it re-raises.
PersonalizedOutcomes(preferences) ==
    { Return([recommendations |-> "Top 5 destinations",
              user_preferences |-> preferences]) }
    \cup { Raise(e) : e \in { Exc("APIConnectionError", <<"Connection error.">>),
                              Exc("RateLimitError", <<"Error code: 429">>) } }

\* generate_confirmation_number()
TripId == "TS0000000000"

EnhancedResult(res, request) ==
    Merge(res,
          [trip_id |-> TripId, user_id |-> request.user_id,
           enhanced_features |->
               [personalization_available |-> PreferencesGiven(request.preferences),
                notifications_enabled |-> request.contact_info # None,
                real_time_updates |-> TRUE]])

\* The task plan_enhanced_trip adds when the request names a user.
TripTasks(request) ==
    IF request.user_id # None
    THEN << [fn |-> "save_trip_data", trip_id |-> TripId,
             user_id |-> request.user_id] >>
    ELSE <<>>

\* A request arrives at a handler; the state of the last request is dropped.
ApiBegin(handler, request) ==
    /\ apc \in {"idle", "responded"}
    /\ apiTasks = <<>>
    /\ apiEndpoint' = handler
    /\ apiRequest' = request
    /\ planCompletion' = NoAnswer
    /\ planResult' = NoResult
    /\ personalized' = NoOutcome
    /\ UNCHANGED <<apiTasks, savedTrips>>
    /\ UNCHANGED <<planVars, clientVars, bookVars, cacheVars, keyVars, recVars, scoreVars, parseVars, mcpVars, connVars>>

\* POST /plan-trip: the handler builds the TravelRequest and awaits plan_trip.
PlanTripHandlerBegin ==
    \E request \in PlanTripRequests :
        /\ ApiBegin("plan_trip", request)
        /\ validation' = NoAnswer
        /\ planCalls' = << TravelRequestOf(request) >>
        /\ apiResponse' = NoAnswer
        /\ apc' = "planning"

\* POST /api/v2/plan-trip: the handler validates the dates; on a rejection
\* its HTTPException(400) is caught by its own except block and answered as a
\* 500, otherwise it builds the TravelRequest and awaits plan_trip.
PlanEnhancedTripBegin ==
    \E request \in EnhancedTripRequests :
        LET v == ValidateDates(request.start_date, request.end_date) IN
        /\ ApiBegin("plan_enhanced_trip", request)
        /\ validation' = v
        /\ IF ~v[1]
           THEN /\ \E e \in HTTPExceptions(400, v[2]) :
                      apiResponse' = HttpError(e)
                /\ planCalls' = <<>>
                /\ apc' = "responded"
           ELSE /\ apiResponse' = NoAnswer
                /\ planCalls' = << TravelRequestOf(request) >>
                /\ apc' = "planning"

\* plan_trip returns to a handler.
PlanTripReturns(res, c) ==
    /\ apc = "planning"
    /\ planCompletion' = c
    /\ planResult' = res
    /\ UNCHANGED <<apiEndpoint, apiRequest, validation, planCalls, savedTrips>>
    /\ UNCHANGED <<planVars, clientVars, bookVars, cacheVars, keyVars, recVars, scoreVars, parseVars, mcpVars, connVars>>

\* main.plan_trip returns plan_trip's result.
PlanTripHandlerReturn ==
    /\ apiEndpoint = "plan_trip"
    /\ \E w \in PlanAnswers(WeatherPayloads), i \in PlanAnswers(InsightsPayloads),
          c \in Completions, f \in PlanAnswers(FlightPayloads),
          h \in PlanAnswers(HotelPayloads) :
         PlanTripReturns(PlanTripResult(planCalls[1], w, i, c, f, h), c)
    /\ apiResponse' = HttpOk(planResult')
    /\ apc' = "responded"
    /\ UNCHANGED <<personalized, apiTasks>>

\* The enhanced response and its background task.
PlanEnhancedTripRespond(res) ==
    /\ apiResponse' = HttpOk(EnhancedResult(res, apiRequest))
    /\ apiTasks' = TripTasks(apiRequest)
    /\ apc' = "responded"

\* plan_enhanced_trip gets plan_trip's result: with preferences it goes on to
\* await get_personalized_recommendations, without it answers.
PlanEnhancedTripPlanned ==
    /\ apiEndpoint = "plan_enhanced_trip"
    /\ \E w \in PlanAnswers(WeatherPayloads), i \in PlanAnswers(InsightsPayloads),
          c \in Completions, f \in PlanAnswers(FlightPayloads),
          h \in PlanAnswers(HotelPayloads) :
         PlanTripReturns(PlanTripResult(planCalls[1], w, i, c, f, h), c)
    /\ IF PreferencesGiven(apiRequest.preferences)
       THEN /\ apc' = "personalizing"
            /\ UNCHANGED <<apiResponse, apiTasks>>
       ELSE PlanEnhancedTripRespond(planResult')
    /\ UNCHANGED personalized

\* get_personalized_recommendations ends: its report is added to the result
\* and the handler answers; its error goes to the handler's except block.
PlanEnhancedTripPersonalized ==
    /\ apc = "personalizing"
    /\ \E o \in PersonalizedOutcomes(apiRequest.preferences) :
         /\ personalized' = o
         /\ IF Caught(o)
            THEN /\ apiResponse' = HttpError(o.exc)
                 /\ apc' = "responded"
                 /\ UNCHANGED <<planResult, apiTasks>>
            ELSE /\ planResult' =
                        Merge(planResult, [personalized_recommendations |-> o.value])
                 /\ PlanEnhancedTripRespond(planResult')
    /\ UNCHANGED <<apiEndpoint, apiRequest, validation, planCalls,
                   planCompletion, savedTrips>>
    /\ UNCHANGED <<planVars, clientVars, bookVars, cacheVars, keyVars, recVars, scoreVars, parseVars, mcpVars, connVars>>

\* After the response, save_trip_data runs and logs the trip.
SaveTripData ==
    /\ apc = "responded"
    /\ apiTasks # <<>>
    /\ savedTrips' = savedTrips \cup { Head(apiTasks).trip_id }
    /\ apiTasks' = Tail(apiTasks)
    /\ UNCHANGED <<apiEndpoint, apc, apiRequest, validation, planCalls,
                   planCompletion, planResult, personalized, apiResponse>>
    /\ UNCHANGED <<planVars, clientVars, bookVars, cacheVars, keyVars, recVars, scoreVars, parseVars, mcpVars, connVars>>

NextApi ==
    \/ PlanTripHandlerBegin
    \/ PlanEnhancedTripBegin
    \/ PlanTripHandlerReturn
    \/ PlanEnhancedTripPlanned
    \/ PlanEnhancedTripPersonalized
    \/ SaveTripData

SpecApi == Init /\ [][NextApi]_vars

-----------------------------------------------------------------------------
(* CacheManager.  Each statement of a method's `async with self._lock` block *)
(* is one step, and the steps of concurrent callers interleave freely: only  *)
(* the lock keeps one caller's block from running inside another's.          *)

MaxTime == 2

\* The store d with key k removed: del d[k].
Del(d, k) == [j \in DOMAIN d \ {k} |-> d[j]]

\* The store d with key k bound to entry e: d[k] = e.
Put(d, k, e) == [j \in DOMAIN d \cup {k} |-> IF j = k THEN e ELSE d[j]]

\* The entry set() stores at time t.
Entry(value, t, ttl_seconds) ==
    [data |-> value, expires_at |-> t + ttl_seconds, created_at |-> t]

\* The first statement of each method's locked block.
FirstStep(op) ==
    CASE op = "get" -> "lookup"
      [] op = "set" -> "store"
      [] op = "delete" -> "delete"
      [] op = "clear" -> "clear"
      [] op = "cleanup_expired" -> "scan"

\* The calls a caller can make: the arguments of each method.
CacheCalls ==
    { [IdleCaller EXCEPT !.op = "get", !.key = k] : k \in CacheKeys }
    \cup { [IdleCaller EXCEPT !.op = "set", !.key = k, !.value = w[1],
                               !.ttl_seconds = w[2]] :
               k \in CacheKeys, w \in CacheWrites }
    \cup { [IdleCaller EXCEPT !.op = "delete", !.key = k] : k \in CacheKeys }
    \cup { [IdleCaller EXCEPT !.op = "clear"],
           [IdleCaller EXCEPT !.op = "cleanup_expired"] }

\* A caller calls a method of the cache manager.
CacheCall(c) ==
    /\ callers[c].pc = "idle"
    /\ \E call \in CacheCalls :
         callers' = [callers EXCEPT ![c] = [call EXCEPT !.pc = "acquire"]]
    /\ UNCHANGED <<cache, lock, now, lastSet, committed>>
    /\ UNCHANGED <<planVars, clientVars, bookVars, apiVars, keyVars, recVars, scoreVars, parseVars, mcpVars, connVars>>

\* Mutant of Acquire: the block is entered without taking the lock.
AcquireUnlocked(c) ==
    /\ callers[c].pc = "acquire"
    /\ callers' = [callers EXCEPT ![c].pc = FirstStep(callers[c].op)]
    /\ UNCHANGED <<cache, lock, now, lastSet, committed>>
    /\ UNCHANGED <<planVars, clientVars, bookVars, apiVars, keyVars, recVars, scoreVars, parseVars, mcpVars, connVars>>

\* async with self._lock: the caller enters once the lock is free.
Acquire(c) ==
    /\ callers[c].pc = "acquire"
    /\ lock = "free"
    /\ lock' = c
    /\ callers' = [callers EXCEPT ![c].pc = FirstStep(callers[c].op)]
    /\ UNCHANGED <<cache, now, lastSet, committed>>
    /\ UNCHANGED <<planVars, clientVars, bookVars, apiVars, keyVars, recVars, scoreVars, parseVars, mcpVars, connVars>>

\* get: `if key in self._cache: entry = self._cache[key]`, else the miss.
GetLookup(c) ==
    /\ callers[c].pc = "lookup"
    /\ IF callers[c].key \in DOMAIN cache
       THEN callers' = [callers EXCEPT ![c].entry = cache[callers[c].key],
                                       ![c].pc = "check"]
       ELSE callers' = [callers EXCEPT ![c].result = Return(None),
                                       ![c].at = now,
                                       ![c].pc = "release"]
    /\ UNCHANGED <<cache, lock, now, lastSet, committed>>
    /\ UNCHANGED <<planVars, clientVars, bookVars, apiVars, keyVars, recVars, scoreVars, parseVars, mcpVars, connVars>>

\* Mutant of GetHit: an entry is still served at its expiry time.
GetHitInclusive(entry, t) == t <= entry.expires_at

\* get: datetime.now() < entry["expires_at"]
GetHit(entry, t) == t < entry.expires_at

\* get: the hit returns the data; the expired entry is deleted and the call
\* returns None (a del of a key that is gone raises KeyError).
GetCheck(c) ==
    /\ callers[c].pc = "check"
    /\ IF GetHit(callers[c].entry, now)
       THEN /\ callers' = [callers EXCEPT
                              ![c].result = Return(callers[c].entry.data),
                              ![c].at = now,
                              ![c].pc = "release"]
            /\ UNCHANGED cache
       ELSE IF callers[c].key \in DOMAIN cache
       THEN /\ cache' = Del(cache, callers[c].key)
            /\ callers' = [callers EXCEPT ![c].result = Return(None),
                                          ![c].at = now,
                                          ![c].pc = "release"]
       ELSE /\ callers' = [callers EXCEPT
                              ![c].result = Raise(Exc("KeyError", <<callers[c].key>>)),
                              ![c].at = now,
                              ![c].pc = "release"]
            /\ UNCHANGED cache
    /\ UNCHANGED <<lock, now, lastSet, committed>>
    /\ UNCHANGED <<planVars, clientVars, bookVars, apiVars, keyVars, recVars, scoreVars, parseVars, mcpVars, connVars>>

\* set: the entry is stored with expires_at = now + ttl_seconds.
SetStore(c) ==
    /\ callers[c].pc = "store"
    /\ LET e == Entry(callers[c].value, now, callers[c].ttl_seconds) IN
         /\ cache' = Put(cache, callers[c].key, e)
         /\ lastSet' = [lastSet EXCEPT ![callers[c].key] =
                            [value |-> callers[c].value, at |-> now,
                             ttl_seconds |-> callers[c].ttl_seconds]]
    /\ callers' = [callers EXCEPT ![c].pc = "release"]
    /\ UNCHANGED <<lock, now, committed>>
    /\ UNCHANGED <<planVars, clientVars, bookVars, apiVars, keyVars, recVars, scoreVars, parseVars, mcpVars, connVars>>

\* Mutant of DeleteKey: the whole store is dropped.
DeleteKeyAll(c) ==
    /\ callers[c].pc = "delete"
    /\ cache' = <<>>
    /\ lastSet' = [k \in CacheKeys |-> NoWrite]
    /\ callers' = [callers EXCEPT ![c].pc = "release"]
    /\ UNCHANGED <<lock, now, committed>>
    /\ UNCHANGED <<planVars, clientVars, bookVars, apiVars, keyVars, recVars, scoreVars, parseVars, mcpVars, connVars>>

\* delete: `if key in self._cache: del self._cache[key]`
DeleteKey(c) ==
    /\ callers[c].pc = "delete"
    /\ cache' = Del(cache, callers[c].key)
    /\ lastSet' = [lastSet EXCEPT ![callers[c].key] = NoWrite]
    /\ callers' = [callers EXCEPT ![c].pc = "release"]
    /\ UNCHANGED <<lock, now, committed>>
    /\ UNCHANGED <<planVars, clientVars, bookVars, apiVars, keyVars, recVars, scoreVars, parseVars, mcpVars, connVars>>

\* clear: self._cache.clear()
Clear(c) ==
    /\ callers[c].pc = "clear"
    /\ cache' = <<>>
    /\ lastSet' = [k \in CacheKeys |-> NoWrite]
    /\ callers' = [callers EXCEPT ![c].pc = "release"]
    /\ UNCHANGED <<lock, now, committed>>
    /\ UNCHANGED <<planVars, clientVars, bookVars, apiVars, keyVars, recVars, scoreVars, parseVars, mcpVars, connVars>>

\* cleanup_expired: the keys whose entry has expired at `now` are collected.
CleanupScan(c) ==
    /\ callers[c].pc = "scan"
    /\ LET expired == { k \in DOMAIN cache : now >= cache[k].expires_at } IN
         callers' = [callers EXCEPT
                        ![c].expired_keys = expired,
                        ![c].pc = IF expired = {} THEN "release" ELSE "sweep"]
    /\ UNCHANGED <<cache, lock, now, lastSet, committed>>
    /\ UNCHANGED <<planVars, clientVars, bookVars, apiVars, keyVars, recVars, scoreVars, parseVars, mcpVars, connVars>>

\* cleanup_expired: `for key in expired_keys: del self._cache[key]`, one key
\* at a time (a del of a key that is gone raises KeyError and ends the loop).
CleanupDelete(c) ==
    /\ callers[c].pc = "sweep"
    /\ \E k \in callers[c].expired_keys :
         LET rest == callers[c].expired_keys \ {k} IN
         IF k \in DOMAIN cache
         THEN /\ cache' = Del(cache, k)
              /\ callers' = [callers EXCEPT
                                ![c].expired_keys = rest,
                                ![c].pc = IF rest = {} THEN "release" ELSE "sweep"]
         ELSE /\ callers' = [callers EXCEPT
                                ![c].expired_keys = {},
                                ![c].result = Raise(Exc("KeyError", <<k>>)),
                                ![c].pc = "release"]
              /\ UNCHANGED cache
    /\ UNCHANGED <<lock, now, lastSet, committed>>
    /\ UNCHANGED <<planVars, clientVars, bookVars, apiVars, keyVars, recVars, scoreVars, parseVars, mcpVars, connVars>>

\* The end of the `async with` block: the lock is released and the call ends.
Release(c) ==
    /\ callers[c].pc = "release"
    /\ lock' = "free"
    /\ committed' = cache
    /\ callers' = [callers EXCEPT ![c] = IdleCaller]
    /\ UNCHANGED <<cache, now, lastSet>>
    /\ UNCHANGED <<planVars, clientVars, bookVars, apiVars, keyVars, recVars, scoreVars, parseVars, mcpVars, connVars>>

\* A second passes.
Tick ==
    /\ now < MaxTime
    /\ now' = now + 1
    /\ UNCHANGED <<cache, lock, callers, lastSet, committed>>
    /\ UNCHANGED <<planVars, clientVars, bookVars, apiVars, keyVars, recVars, scoreVars, parseVars, mcpVars, connVars>>

\* The steps of a call that has started.
CacheStep(c) ==
    \/ Acquire(c)
    \/ GetLookup(c)
    \/ GetCheck(c)
    \/ SetStore(c)
    \/ DeleteKey(c)
    \/ Clear(c)
    \/ CleanupScan(c)
    \/ CleanupDelete(c)
    \/ Release(c)

NextCache ==
    \/ \E c \in Callers : CacheCall(c)
    \/ \E c \in Callers : CacheStep(c)
    \/ Tick

SpecCache == Init /\ [][NextCache]_vars

\* The event loop runs every call that has started to its end, and time
\* passes; nothing in the program calls get or cleanup_expired on its own.
SpecCacheFair ==
    /\ SpecCache
    /\ \A c \in Callers : WF_vars(CacheStep(c))
    /\ WF_vars(Tick)

-----------------------------------------------------------------------------
(* Cache key derivation: CacheManager.cache_key_for_weather / _insights /    *)
(* _flights and the key of the cached_result wrapper.  hashlib.md5 is taken  *)
(* as injective: a key is the text that is hashed.                           *)

MaxDerivations == 2

\* A call: the positional arguments, and the keyword arguments in the order
\* the caller wrote them.
Call(args, kwargs) == [args |-> args, kwargs |-> kwargs]

KeywordNames(kwargs) == { kwargs[n][1] : n \in DOMAIN kwargs }

KeywordValue(kwargs, name) ==
    kwargs[CHOOSE n \in DOMAIN kwargs : kwargs[n][1] = name][2]

\* Python's binding of a call to the parameters of a signature: positional
\* arguments by position, keyword arguments by name, then the defaults.
Bind(parameters, defaults, call) ==
    [ name \in { parameters[n] : n \in DOMAIN parameters } |->
        LET n == CHOOSE m \in DOMAIN parameters : parameters[m] = name IN
        IF n <= Len(call.args) THEN call.args[n]
        ELSE IF name \in KeywordNames(call.kwargs)
        THEN KeywordValue(call.kwargs, name)
        ELSE defaults[name] ]

\* f"weather:{location}:{start_date}:{end_date}"
CacheKeyForWeather(location, start_date, end_date) ==
    "weather:" \o location \o ":" \o start_date \o ":" \o end_date

\* f"insights:{destination}:{travel_type}"
CacheKeyForInsights(destination, travel_type) ==
    "insights:" \o destination \o ":" \o travel_type

\* f"flights:{origin}:{destination}:{date}"
CacheKeyForFlights(origin, destination, date) ==
    "flights:" \o origin \o ":" \o destination \o ":" \o date

\* json.dumps(kwargs, sort_keys=True): the object of the keyword arguments,
\* whatever the order they were written in.
KwargsObject(kwargs) ==
    [ name \in KeywordNames(kwargs) |-> KeywordValue(kwargs, name) ]

\* The key of cached_result's wrapper:
\* json.dumps({"func": func.__name__, "args": args, "kwargs": kwargs}, sort_keys=True, default=str)
WrapperKey(func, call) ==
    [func |-> func, args |-> call.args, kwargs |-> KwargsObject(call.kwargs)]

\* The lookups of the orchestrator, as logical queries.
WeatherQueries ==
    { [location |-> l, start_date |-> s, end_date |-> "2024-07-07"] :
         l \in {"Paris", "Tokyo"}, s \in {"2024-07-01", "2024-07-02"} }

InsightsQueries ==
    { [destination |-> d, travel_type |-> t, party_size |-> n] :
         d \in {"Paris", "Tokyo"}, t \in {"leisure", "business"}, n \in {1, 2} }

FlightQueries ==
    { [origin |-> "Dublin", destination |-> d, departure_date |-> "2024-07-01",
       return_date |-> r, passengers |-> 1] :
         d \in {"Paris", "Tokyo"}, r \in {"2024-07-07", "2024-07-14"} }

\* get_personalized_recommendations(self, user_preferences,
\* travel_history=None, budget_range=None), as logical queries.
PersonalizedParameters ==
    <<"self", "user_preferences", "travel_history", "budget_range">>

PersonalizedDefaults ==
    [self |-> None, user_preferences |-> None, travel_history |-> None,
     budget_range |-> None]

PersonalizedQueries ==
    { [self |-> "<RecommendationEngine>", user_preferences |-> p,
       travel_history |-> None, budget_range |-> b] :
         p \in {"{}", "{activities: [museums]}"},
         b \in {None, "(1600.0, 2400.0)"} }

\* The ways the program and its tests call get_personalized_recommendations
\* for a query: as plan_enhanced_trip does (enhanced_main.py:156), as the
\* recommendations endpoint does (enhanced_main.py:199), the same with the
\* keywords in another order, and positionally with the defaults left out.
PersonalizedCalls(q) ==
    { Call(<<q.self, q.user_preferences>>,
           << <<"budget_range", q.budget_range>> >>),
      Call(<<q.self>>,
           << <<"user_preferences", q.user_preferences>>,
              <<"travel_history", q.travel_history>>,
              <<"budget_range", q.budget_range>> >>),
      Call(<<q.self>>,
           << <<"budget_range", q.budget_range>>,
              <<"travel_history", q.travel_history>>,
              <<"user_preferences", q.user_preferences>> >>) }
    \cup (IF q.budget_range = None
          THEN { Call(<<q.self, q.user_preferences>>, <<>>) }
          ELSE {})

\* The ways to call cache_key_for_weather for a query.
WeatherKeyCalls(q) ==
    { Call(<<q.location, q.start_date, q.end_date>>, <<>>),
      Call(<<q.location>>, << <<"end_date", q.end_date>>,
                              <<"start_date", q.start_date>> >>),
      Call(<<>>, << <<"start_date", q.start_date>>,
                    <<"location", q.location>>,
                    <<"end_date", q.end_date>> >>) }

\* The ways to call cache_key_for_insights for a query: the function has no
\* parameter for the party size.
InsightsKeyCalls(q) ==
    { Call(<<q.destination, q.travel_type>>, <<>>),
      Call(<<>>, << <<"travel_type", q.travel_type>>,
                    <<"destination", q.destination>> >>) }

\* The way to call cache_key_for_flights for a query: the function takes one
\* date and has no parameter for the passengers.
FlightKeyCalls(q) ==
    { Call(<<q.origin, q.destination, q.departure_date>>, <<>>) }

NoDefaults == [x \in {} |-> None]

Derive(fn, call, query, key) ==
    /\ Len(derivations) < MaxDerivations
    /\ derivations' = Append(derivations,
           [fn |-> fn, call |-> call, query |-> query, key |-> key])
    /\ UNCHANGED <<planVars, clientVars, bookVars, apiVars, cacheVars, recVars, scoreVars, parseVars, mcpVars, connVars>>

CacheKeyForWeatherCall ==
    \E q \in WeatherQueries : \E call \in WeatherKeyCalls(q) :
        LET b == Bind(<<"location", "start_date", "end_date">>, NoDefaults, call)
        IN  Derive("cache_key_for_weather", call, q,
                   CacheKeyForWeather(b.location, b.start_date, b.end_date))

CacheKeyForInsightsCall ==
    \E q \in InsightsQueries : \E call \in InsightsKeyCalls(q) :
        LET b == Bind(<<"destination", "travel_type">>, NoDefaults, call)
        IN  Derive("cache_key_for_insights", call, q,
                   CacheKeyForInsights(b.destination, b.travel_type))

CacheKeyForFlightsCall ==
    \E q \in FlightQueries : \E call \in FlightKeyCalls(q) :
        LET b == Bind(<<"origin", "destination", "date">>, NoDefaults, call)
        IN  Derive("cache_key_for_flights", call, q,
                   CacheKeyForFlights(b.origin, b.destination, b.date))

\* The wrapper of get_personalized_recommendations derives its key.
CachedResultKeyCall ==
    \E q \in PersonalizedQueries : \E call \in PersonalizedCalls(q) :
        Derive("get_personalized_recommendations", call,
               Bind(PersonalizedParameters, PersonalizedDefaults, call),
               WrapperKey("get_personalized_recommendations", call))

NextKeys ==
    \/ CacheKeyForWeatherCall
    \/ CacheKeyForInsightsCall
    \/ CacheKeyForFlightsCall
    \/ CachedResultKeyCall

SpecKeys == Init /\ [][NextKeys]_vars

-----------------------------------------------------------------------------
(* RecommendationEngine._calculate_personalization_score *)

\* The preference maps scored: any of the three categories the score looks
\* for, the activities empty or not, and up to MaxOtherKeys further keys.
MaxOtherKeys == 4
OtherKeys == <<"climate", "pace", "food", "season", "culture", "nightlife">>
ScoredCategories == {"activities", "accommodation", "budget"}
ActivityValues == { <<>>, <<"museums">> }

PreferenceMap(keys, activities) ==
    [k \in keys |-> IF k = "activities" THEN activities ELSE "medium"]

PreferenceMaps ==
    { PreferenceMap(named \cup {OtherKeys[i] : i \in 1..n}, a) :
         named \in SUBSET ScoredCategories, a \in ActivityValues,
         n \in 0..MaxOtherKeys }

\* The travel histories scored: None, or a list of up to MaxHistory trips.
MaxHistory == 5
NoHistory == [is_none |-> TRUE, entries |-> <<>>]
History(n) == [is_none |-> FALSE,
               entries |-> [i \in 1..n |-> [destination |-> "Paris"]]]
Histories == {NoHistory} \cup { History(n) : n \in 0..MaxHistory }

\* len(d) of a dict; `if d:` of a dict; `if l:` of an Optional[List].
DictLen(d) == Cardinality(DOMAIN d)
DictTruthy(d) == DOMAIN d # {}
ListTruthy(l) == ~l.is_none /\ Len(l.entries) > 0

\* The bonuses _calculate_personalization_score adds up.  The scores are
\* whole floats.
PersonalizationBonuses(preferences, travel_history) ==
    LET base == IF DictTruthy(preferences) THEN 30 ELSE 0
        detailed == IF DictTruthy(preferences) /\ DictLen(preferences) > 5
                    THEN 20 ELSE 0
        activities == IF /\ DictTruthy(preferences)
                         /\ "activities" \in DOMAIN preferences
                         /\ preferences["activities"] # <<>>
                      THEN 15 ELSE 0
        accommodation == IF /\ DictTruthy(preferences)
                            /\ "accommodation" \in DOMAIN preferences
                         THEN 10 ELSE 0
        budget == IF DictTruthy(preferences) /\ "budget" \in DOMAIN preferences
                  THEN 10 ELSE 0
        history == IF ListTruthy(travel_history) THEN 15 ELSE 0
        extensive == IF /\ ListTruthy(travel_history)
                        /\ Len(travel_history.entries) > 3
                     THEN 10 ELSE 0
    IN  base + detailed + activities + accommodation + budget
        + history + extensive

\* The score without its cap, and a score whose history part replaces the
\* preference part.
CalculatePersonalizationScoreUncapped(preferences, travel_history) ==
    PersonalizationBonuses(preferences, travel_history)

CalculatePersonalizationScoreHistoryOnly(preferences, travel_history) ==
    IF ListTruthy(travel_history)
    THEN 15 + (IF Len(travel_history.entries) > 3 THEN 10 ELSE 0)
    ELSE PersonalizationBonuses(preferences, travel_history)

\* _calculate_personalization_score: min(score, 100.0).
CalculatePersonalizationScore(preferences, travel_history) ==
    LET score == PersonalizationBonuses(preferences, travel_history)
    IN  IF score < 100 THEN score ELSE 100

Scored(preferences, travel_history) ==
    [preferences |-> preferences, travel_history |-> travel_history,
     score |-> CalculatePersonalizationScore(preferences, travel_history)]

\* The preference maps with one key more than p, the histories with one trip
\* more than h (None and [] both grow to a list of one trip).
OneMoreKey(p) ==
    { q \in PreferenceMaps :
        /\ DOMAIN p \subseteq DOMAIN q
        /\ Cardinality(DOMAIN q) = Cardinality(DOMAIN p) + 1
        /\ \A k \in DOMAIN p : q[k] = p[k] }

OneMoreTrip(h) ==
    { g \in Histories :
        ~g.is_none /\ Len(g.entries) = Len(h.entries) + 1 }

\* The score of some preferences and history is calculated.
PersonalizationScoreCall ==
    /\ \E p \in PreferenceMaps, h \in Histories :
         scored' = << Scored(p, h) >>
    /\ UNCHANGED <<planVars, clientVars, bookVars, apiVars, cacheVars, keyVars, recVars, parseVars, mcpVars, connVars>>

\* The score is calculated again after a key was added to the preferences.
PersonalizationScoreWithKey ==
    /\ scored # <<>>
    /\ LET last == scored[Len(scored)]
       IN  \E q \in OneMoreKey(last.preferences) :
             scored' = << last, Scored(q, last.travel_history) >>
    /\ UNCHANGED <<planVars, clientVars, bookVars, apiVars, cacheVars, keyVars, recVars, parseVars, mcpVars, connVars>>

\* The score is calculated again after a trip was added to the history.
PersonalizationScoreWithTrip ==
    /\ scored # <<>>
    /\ LET last == scored[Len(scored)]
       IN  \E g \in OneMoreTrip(last.travel_history) :
             scored' = << last, Scored(last.preferences, g) >>
    /\ UNCHANGED <<planVars, clientVars, bookVars, apiVars, cacheVars, keyVars, recVars, parseVars, mcpVars, connVars>>

NextScore ==
    \/ PersonalizationScoreCall
    \/ PersonalizationScoreWithKey
    \/ PersonalizationScoreWithTrip

SpecScore == Init /\ [][NextScore]_vars

-----------------------------------------------------------------------------
(* RecommendationEngine._parse_similar_destinations_response.  A response   *)
(* is the sequence of its lines (response.split('\n')), a line the sequence  *)
(* of its words and blanks.                                                  *)

Blanks == {" ", "\t"}

\* str.lower() of a word.
Lower(word) ==
    CASE word = "Destination:" -> "destination:"
      [] word = "COUNTRY:" -> "country:"
      [] word = "Capital-City:" -> "capital-city:"
      [] word = "Destination" -> "destination"
      [] word = "Rome" -> "rome"
      [] OTHER -> word

\* The keywords that are substrings of a lower-case word.
KeywordsIn(word) ==
    CASE word \in {"destination:", "city:", "country:"} -> {word}
      [] word = "capital-city:" -> {"city:"}
      [] OTHER -> {}

\* str.strip() of a line.
RECURSIVE LStrip(_)
LStrip(line) ==
    IF line # <<>> /\ Head(line) \in Blanks THEN LStrip(Tail(line)) ELSE line

RECURSIVE RStrip(_)
RStrip(line) ==
    IF line # <<>> /\ line[Len(line)] \in Blanks
    THEN RStrip(SubSeq(line, 1, Len(line) - 1)) ELSE line

Strip(line) == RStrip(LStrip(line))

\* any(keyword in line.lower() for keyword in [...])
IsIndicator(line) == \E i \in DOMAIN line : KeywordsIn(Lower(line[i])) # {}

\* The lines a response is made of, and the responses of up to MaxLines
\* lines.
MaxLines == 4
ResponseLines ==
    { <<>>,
      <<" ", "\t">>,
      <<"Destination:", " ", "Rome">>,
      <<" ", "Capital-City:", " ", "Rome", " ">>,
      <<"COUNTRY:">>,
      <<"Destination", " ", "Rome">>,
      <<"\t", "best", " ", "food", " ">>,
      <<"Rome">> }

\* {} and {"name": line, "details": []}
EmptyDict == <<>>
Destination(name) == [name |-> name, details |-> <<>>]

\* A parser that never appends the destination it is still filling.
RECURSIVE ParseLinesDropLast(_, _, _)
ParseLinesDropLast(lines, destinations, current_dest) ==
    IF lines = <<>> THEN destinations
    ELSE LET line == Strip(Head(lines))
         IN  IF line = <<>>
             THEN ParseLinesDropLast(Tail(lines), destinations, current_dest)
             ELSE IF IsIndicator(line)
             THEN ParseLinesDropLast(Tail(lines),
                      IF DOMAIN current_dest # {}
                      THEN Append(destinations, current_dest) ELSE destinations,
                      Destination(line))
             ELSE IF DOMAIN current_dest # {}
             THEN ParseLinesDropLast(Tail(lines), destinations,
                      [current_dest EXCEPT !.details = Append(@, line)])
             ELSE ParseLinesDropLast(Tail(lines), destinations, current_dest)

ParseSimilarDestinationsResponseDropLast(response) ==
    ParseLinesDropLast(response, <<>>, EmptyDict)

\* The loop over the lines and the append after it.
RECURSIVE ParseLines(_, _, _)
ParseLines(lines, destinations, current_dest) ==
    IF lines = <<>>
    THEN IF DOMAIN current_dest # {}
         THEN Append(destinations, current_dest) ELSE destinations
    ELSE LET line == Strip(Head(lines))
         IN  IF line = <<>>
             THEN ParseLines(Tail(lines), destinations, current_dest)
             ELSE IF IsIndicator(line)
             THEN ParseLines(Tail(lines),
                      IF DOMAIN current_dest # {}
                      THEN Append(destinations, current_dest) ELSE destinations,
                      Destination(line))
             ELSE IF DOMAIN current_dest # {}
             THEN ParseLines(Tail(lines), destinations,
                      [current_dest EXCEPT !.details = Append(@, line)])
             ELSE ParseLines(Tail(lines), destinations, current_dest)

ParseSimilarDestinationsResponse(response) ==
    ParseLines(response, <<>>, EmptyDict)

\* A response one line longer than the last one is parsed.
ParseSimilarDestinationsCall ==
    /\ Len(parsed.response) < MaxLines
    /\ \E line \in ResponseLines :
         LET response == Append(parsed.response, line)
         IN  parsed' = [response |-> response,
                        destinations |-> ParseSimilarDestinationsResponse(response)]
    /\ UNCHANGED <<planVars, clientVars, bookVars, apiVars, cacheVars, keyVars, recVars, scoreVars, mcpVars, connVars>>

\* A response of one line is parsed.
ParseSimilarDestinationsFirstCall ==
    /\ \E line \in ResponseLines :
         parsed' = [response |-> <<line>>,
                    destinations |-> ParseSimilarDestinationsResponse(<<line>>)]
    /\ UNCHANGED <<planVars, clientVars, bookVars, apiVars, cacheVars, keyVars, recVars, scoreVars, mcpVars, connVars>>

NextParse ==
    \/ ParseSimilarDestinationsFirstCall
    \/ ParseSimilarDestinationsCall

SpecParse == Init /\ [][NextParse]_vars

-----------------------------------------------------------------------------
(* RecommendationEngine and the cached_result decorator.  Only               *)
(* get_personalized_recommendations is decorated (ttl_seconds=3600); the     *)
(* other operations call the language model on every call.                   *)

\* @cached_result(ttl_seconds=3600)
PersonalizedTtl == 3600

\* The clock advances by this many seconds at a time, this many times.
RecTickSeconds == 1800
MaxRecTicks == 2

\* The calls made to the engine: the operation, its call, its bound
\* parameters.
RecCall(op, call, parameters, defaults) ==
    [op |-> op, call |-> call, query |-> Bind(parameters, defaults, call)]

RecCalls ==
    { RecCall("get_personalized_recommendations", call,
              PersonalizedParameters, PersonalizedDefaults) :
         call \in { Call(<<"<RecommendationEngine>", "{activities: [museums]}">>,
                         << <<"budget_range", None>> >>),
                    Call(<<"<RecommendationEngine>">>,
                         << <<"user_preferences", "{activities: [museums]}">>,
                            <<"travel_history", None>>,
                            <<"budget_range", None>> >>) } }
    \cup { RecCall("get_seasonal_recommendations",
                   Call(<<"<RecommendationEngine>">>,
                        << <<"month", m>>, <<"preferences", "{}">> >>),
                   <<"self", "month", "preferences">>, NoDefaults) :
              m \in {"7", "8"} }
    \cup { RecCall("get_similar_destinations",
                   Call(<<"<RecommendationEngine>">>,
                        << <<"liked_destination", "Paris">>,
                           <<"preferences", "{}">> >>),
                   <<"self", "liked_destination", "preferences">>, NoDefaults) }
    \cup { RecCall("get_activity_recommendations",
                   Call(<<"<RecommendationEngine>">>,
                        << <<"destination", "Paris">>,
                           <<"interests", "[museums]">>,
                           <<"travel_style", "balanced">>,
                           <<"duration_days", "7">> >>),
                   <<"self", "destination", "interests", "travel_style",
                     "duration_days">>, NoDefaults) }

\* Whether the operation is wrapped by cached_result.
Decorated(op) == op = "get_personalized_recommendations"

\* message.content of a choice: a text, given by its lines, or None.
Content(text) == [is_none |-> FALSE, text |-> text]
NoContent == [is_none |-> TRUE, text |-> <<>>]

\* What chat.completions.create gives to answer_travel_question.
RecCompletions ==
    { [kind |-> "response",
       choices |-> << Content(<< <<"Rome">>,
                                 <<"Destination:", " ", "Rome">>,
                                 <<"\t", "best", " ", "food", " ">> >>) >>],
      [kind |-> "response", choices |-> << NoContent >>],
      [kind |-> "error",
       exc |-> Exc("APIConnectionError", <<"Connection error.">>)] }

\* answer_travel_question: choices[0].message.content, or the error re-raised.
AnswerTravelQuestion(response) ==
    IF response.kind = "error" THEN Raise(response.exc)
    ELSE IF response.choices = <<>>
    THEN Raise(Exc("IndexError", <<"list index out of range">>))
    ELSE Return(response.choices[1])

\* A get_similar_destinations without its except clause.
GetSimilarDestinationsUnguarded(answer) ==
    IF answer.kind = "raise" THEN answer
    ELSE IF answer.value.is_none
    THEN Raise(Exc("AttributeError",
                   <<"'NoneType' object has no attribute 'split'">>))
    ELSE Return(ParseSimilarDestinationsResponse(answer.value.text))

\* get_similar_destinations, from the answer of answer_travel_question on:
\* the parse of the text, and [] when the call raised or the parse raised
\* (None has no split).
GetSimilarDestinations(answer) ==
    IF answer.kind = "raise" THEN Return(<<>>)
    ELSE IF answer.value.is_none THEN Return(<<>>)
    ELSE Return(ParseSimilarDestinationsResponse(answer.value.text))

\* What the operation makes of the answer at time t: its report, the error
\* re-raised, or for get_similar_destinations the parsed list and [] on an
\* error.
RecResult(op, answer, t) ==
    IF op = "get_similar_destinations" THEN GetSimilarDestinations(answer)
    ELSE IF answer.kind = "raise" THEN answer
    ELSE Return([recommendations |-> answer.value, generated_at |-> t])

\* A wrapper that stores whatever the call ended with.
StoredAlways(entries, key, r, query, t) ==
    Put(entries, key,
        [data |-> IF r.kind = "return" THEN r.value ELSE r,
         expires_at |-> t + PersonalizedTtl, query |-> query])

\* The wrapper after `result = await func(*args, **kwargs)`: the result is
\* stored with its expiry; an exception leaves the wrapper before the store.
Stored(entries, key, r, query, t) ==
    IF r.kind = "return"
    THEN Put(entries, key,
             [data |-> r.value, expires_at |-> t + PersonalizedTtl,
              query |-> query])
    ELSE entries

\* A call arrives.  The wrapper of a decorated operation derives the key and
\* looks it up: a live entry is returned at once, an expired one is deleted;
\* otherwise, and for an operation without wrapper, the operation builds its
\* prompt and awaits answer_travel_question.
Begin(c, call) ==
    /\ recCallers[c].pc \in {"idle", "done"}
    /\   LET key == WrapperKey(call.op, call.call)
             cached == Decorated(call.op) /\ key \in DOMAIN memo
             live == cached /\ now < memo[key].expires_at
             begun == [op |-> call.op, call |-> call.call, query |-> call.query,
                       pc |-> "llm", started |-> now, hit |-> FALSE,
                       answer |-> NoOutcome, result |-> NoOutcome]
         IN  IF live
             THEN /\ recCallers' = [recCallers EXCEPT ![c] =
                         [begun EXCEPT !.pc = "done", !.hit = TRUE,
                                       !.result = Return(memo[key].data)]]
                  /\ UNCHANGED memo
             ELSE /\ recCallers' = [recCallers EXCEPT ![c] = begun]
                  /\ memo' = IF cached THEN Del(memo, key) ELSE memo
    /\ UNCHANGED <<lastDone, lastFailed, now>>
    /\ UNCHANGED <<cache, lock, callers, lastSet, committed>>
    /\ UNCHANGED <<planVars, clientVars, bookVars, apiVars, keyVars, scoreVars, parseVars, mcpVars, connVars>>

\* A call of any of the four operations arrives.
RecommendationCall(c) == \E call \in RecCalls : Begin(c, call)

\* A call of the decorated operation arrives.
WrappedCall(c) ==
    \E call \in { x \in RecCalls : Decorated(x.op) } : Begin(c, call)

\* The language model answers: the operation ends, and the wrapper of a
\* decorated operation stores what it returned.
RecommendationReturn(c) ==
    /\ recCallers[c].pc = "llm"
    /\ \E answered \in RecCompletions :
         LET answer == AnswerTravelQuestion(answered)
             r == RecResult(recCallers[c].op, answer, now)
             key == WrapperKey(recCallers[c].op, recCallers[c].call)
         IN  /\ recCallers' = [recCallers EXCEPT ![c].pc = "done",
                                                 ![c].answer = answer,
                                                 ![c].result = r]
             /\ memo' = IF Decorated(recCallers[c].op)
                        THEN Stored(memo, key, r, recCallers[c].query, now)
                        ELSE memo
             /\ lastDone' = IF r.kind = "return" /\ answer.kind = "return"
                            THEN [op |-> recCallers[c].op,
                                  query |-> recCallers[c].query, at |-> now]
                            ELSE lastDone
             /\ lastFailed' = IF r.kind = "raise"
                              THEN [op |-> recCallers[c].op,
                                    query |-> recCallers[c].query, at |-> now]
                              ELSE lastFailed
    /\ UNCHANGED now
    /\ UNCHANGED <<cache, lock, callers, lastSet, committed>>
    /\ UNCHANGED <<planVars, clientVars, bookVars, apiVars, keyVars, scoreVars, parseVars, mcpVars, connVars>>

\* Half an hour passes.
RecTick ==
    /\ now < MaxRecTicks * RecTickSeconds
    /\ now' = now + RecTickSeconds
    /\ UNCHANGED <<cache, lock, callers, lastSet, committed>>
    /\ UNCHANGED <<planVars, clientVars, bookVars, apiVars, keyVars, recVars, scoreVars, parseVars, mcpVars, connVars>>

\* One caller at a time, any of the four operations.
NextRec ==
    \/ \E c \in {"r1"} : RecommendationCall(c)
    \/ \E c \in {"r1"} : RecommendationReturn(c)
    \/ RecTick

SpecRec == Init /\ [][NextRec]_vars

\* Two callers of the decorated operation, whose calls may overlap.
NextOverlap ==
    \/ \E c \in RecCallers : WrappedCall(c)
    \/ \E c \in RecCallers : RecommendationReturn(c)
    \/ RecTick

SpecOverlap == Init /\ [][NextOverlap]_vars

-----------------------------------------------------------------------------
(* MCPClient: its session, health_check and close, and the orchestrator's   *)
(* three clients from TravelOrchestrator() to the end of the command that   *)
(* made it.                                                                  *)

\* Sessions created in one life of the orchestrator.
MaxSessions == 4

OpenSession(client) == [owner |-> client, closed |-> FALSE]

\* Whether self.session is None or closed.
NeedsSession(c) == IF held[c] = 0 THEN TRUE ELSE sessions[held[c]].closed

\* _get_session: self.session afterwards, and the sessions created so far.
SessionsAfterGet(c) ==
    IF NeedsSession(c) THEN Append(sessions, OpenSession(c)) ELSE sessions

HeldAfterGet(c) ==
    IF NeedsSession(c) THEN [held EXCEPT ![c] = Len(sessions) + 1] ELSE held

\* What GET /health comes to: creating the session raises, no response
\* arrives, or a response with its status.
Probes ==
    { [kind |-> "no-session"] }
    \cup TransportFailures
    \cup { Http(200, TRUE, "ok"), Http(200, FALSE, "<html>"),
           Http(204, FALSE, ""), Http(404, TRUE, "Not Found"),
           Http(503, FALSE, "Service Unavailable") }

\* A health_check that takes every 2xx status for healthy.
HealthCheckAnySuccess(probe) ==
    IF probe.kind = "http" THEN Return(probe.status < 300) ELSE Return(FALSE)

\* health_check: response.status == 200, and False from the except clause.
HealthCheck(probe) ==
    IF probe.kind = "http" THEN Return(probe.status = 200) ELSE Return(FALSE)

\* client.health_check()
ClientHealthCheck(c) ==
    /\ ~discarded
    /\ NeedsSession(c) => Len(sessions) < MaxSessions
    /\ \E probe \in Probes :
         /\ health' = [client |-> c, probe |-> probe, result |-> HealthCheck(probe)]
         /\ IF probe.kind = "no-session"
            THEN /\ NeedsSession(c)
                 /\ UNCHANGED <<sessions, held>>
            ELSE /\ sessions' = SessionsAfterGet(c)
                 /\ held' = HeldAfterGet(c)
    /\ UNCHANGED discarded
    /\ UNCHANGED <<planVars, clientVars, bookVars, apiVars, cacheVars, keyVars, recVars, scoreVars, parseVars, connVars>>

\* client.call_tool(...): the session is taken (or created) before the post.
ClientCallTool(c) ==
    /\ ~discarded
    /\ NeedsSession(c) => Len(sessions) < MaxSessions
    /\ sessions' = SessionsAfterGet(c)
    /\ held' = HeldAfterGet(c)
    /\ UNCHANGED <<health, discarded>>
    /\ UNCHANGED <<planVars, clientVars, bookVars, apiVars, cacheVars, keyVars, recVars, scoreVars, parseVars, connVars>>

\* client.close(), also the exit of `async with client`.
ClientClose(c) ==
    /\ ~discarded
    /\ sessions' = IF ~NeedsSession(c)
                   THEN [sessions EXCEPT ![held[c]].closed = TRUE]
                   ELSE sessions
    /\ UNCHANGED <<held, health, discarded>>
    /\ UNCHANGED <<planVars, clientVars, bookVars, apiVars, cacheVars, keyVars, recVars, scoreVars, parseVars, connVars>>

\* The command that made the orchestrator ends: the orchestrator and its
\* clients are dropped as they are.
OrchestratorDiscarded ==
    /\ ~discarded
    /\ discarded' = TRUE
    /\ UNCHANGED <<sessions, held, health>>
    /\ UNCHANGED <<planVars, clientVars, bookVars, apiVars, cacheVars, keyVars, recVars, scoreVars, parseVars, connVars>>

NextClient ==
    \/ \E c \in Clients : ClientHealthCheck(c)
    \/ \E c \in Clients : ClientCallTool(c)
    \/ \E c \in Clients : ClientClose(c)
    \/ OrchestratorDiscarded

SpecClient == Init /\ [][NextClient]_vars

-----------------------------------------------------------------------------
(* ConnectionManager: connect and disconnect as handle_connection calls     *)
(* them, and broadcast, which is suspended at every send.                    *)

\* The user ids a connection is opened with; None for an anonymous one.
UserIds == {None, "alice", "bob"}

\* `x in list`
InList(list, x) == \E i \in DOMAIN list : list[i] = x

\* list.remove(x) of a list that holds x: the first x is removed.
RECURSIVE ListRemove(_, _)
ListRemove(list, x) ==
    IF list = <<>> THEN <<>>
    ELSE IF Head(list) = x THEN Tail(list)
    ELSE <<Head(list)>> \o ListRemove(Tail(list), x)

\* handle_connection starts: connect accepts the socket, appends it and
\* binds the user id to it.
Connect(w, user_id) ==
    /\ sockets[w].state = "new"
    /\ sockets' = [sockets EXCEPT ![w] = [state |-> "connected", user_id |-> user_id]]
    /\ active_connections' = Append(active_connections, w)
    /\ user_connections' = IF user_id # None
                           THEN Put(user_connections, user_id, w)
                           ELSE user_connections
    /\ UNCHANGED broadcast
    /\ UNCHANGED <<planVars, clientVars, bookVars, apiVars, cacheVars, keyVars, recVars, scoreVars, parseVars, mcpVars>>

\* websocket.accept() raises: connect ends before the append.
ConnectRefused(w) ==
    /\ sockets[w].state = "new"
    /\ sockets' = [sockets EXCEPT ![w].state = "closed"]
    /\ UNCHANGED <<active_connections, user_connections, broadcast>>
    /\ UNCHANGED <<planVars, clientVars, bookVars, apiVars, cacheVars, keyVars, recVars, scoreVars, parseVars, mcpVars>>

\* handle_connection ends (WebSocketDisconnect or another error) and calls
\* disconnect(websocket, user_id).
Disconnect(w) ==
    /\ sockets[w].state = "connected"
    /\ sockets' = [sockets EXCEPT ![w].state = "closed"]
    /\ active_connections' = IF InList(active_connections, w)
                             THEN ListRemove(active_connections, w)
                             ELSE active_connections
    /\ user_connections' =
           IF sockets[w].user_id # None
              /\ sockets[w].user_id \in DOMAIN user_connections
           THEN Del(user_connections, sockets[w].user_id)
           ELSE user_connections
    /\ UNCHANGED broadcast
    /\ UNCHANGED <<planVars, clientVars, bookVars, apiVars, cacheVars, keyVars, recVars, scoreVars, parseVars, mcpVars>>

\* broadcast is called: disconnected = [] and the iterator over
\* active_connections is made.
BroadcastBegin ==
    /\ broadcast.pc \in {"idle", "done", "raised"}
    /\ broadcast' = [pc |-> "sending", index |-> 0, disconnected |-> <<>>,
                     sent |-> <<>>]
    /\ UNCHANGED <<active_connections, user_connections, sockets>>
    /\ UNCHANGED <<planVars, clientVars, bookVars, apiVars, cacheVars, keyVars, recVars, scoreVars, parseVars, mcpVars>>

\* One turn of the first loop: the list iterator gives the element at its
\* index, if there is one, and the send to it succeeds or raises.
BroadcastSend ==
    /\ broadcast.pc = "sending"
    /\ broadcast.index < Len(active_connections)
    /\ LET connection == active_connections[broadcast.index + 1]
       IN  \E ok \in BOOLEAN :
             broadcast' =
                 [broadcast EXCEPT
                    !.index = @ + 1,
                    !.sent = IF ok THEN Append(@, connection) ELSE @,
                    !.disconnected = IF ok THEN @ ELSE Append(@, connection)]
    /\ UNCHANGED <<active_connections, user_connections, sockets>>
    /\ UNCHANGED <<planVars, clientVars, bookVars, apiVars, cacheVars, keyVars, recVars, scoreVars, parseVars, mcpVars>>

\* The second loop: each connection of `disconnected` is removed;
\* list.remove raises ValueError for one that is no longer in the list.
RECURSIVE RemoveDisconnected(_, _)
RemoveDisconnected(list, disconnected) ==
    IF disconnected = <<>> THEN [list |-> list, raised |-> FALSE]
    ELSE IF ~InList(list, Head(disconnected))
    THEN [list |-> list, raised |-> TRUE]
    ELSE RemoveDisconnected(ListRemove(list, Head(disconnected)),
                            Tail(disconnected))

\* The iterator is exhausted: the second loop runs, and broadcast returns or
\* raises.
BroadcastRemove ==
    /\ broadcast.pc = "sending"
    /\ broadcast.index >= Len(active_connections)
    /\ LET after == RemoveDisconnected(active_connections, broadcast.disconnected)
       IN  /\ active_connections' = after.list
           /\ broadcast' = [broadcast EXCEPT
                              !.pc = IF after.raised THEN "raised" ELSE "done"]
    /\ UNCHANGED <<user_connections, sockets>>
    /\ UNCHANGED <<planVars, clientVars, bookVars, apiVars, cacheVars, keyVars, recVars, scoreVars, parseVars, mcpVars>>

NextConn ==
    \/ \E w \in WebSockets, u \in UserIds : Connect(w, u)
    \/ \E w \in WebSockets : ConnectRefused(w)
    \/ \E w \in WebSockets : Disconnect(w)
    \/ BroadcastBegin
    \/ BroadcastSend
    \/ BroadcastRemove

SpecConn == Init /\ [][NextConn]_vars

-----------------------------------------------------------------------------
(* Vocabulary of the properties of plan_trip *)

Answered(l) == answers[l].kind # "none"
LookupSucceeded(l) == Answered(l) /\ Succeeded(answers[l])
LookupFailed(l) == Answered(l) /\ ~Succeeded(answers[l])

\* The language model's client gave a first choice / gave none or raised.
NarrativeReturned ==
    completion.kind = "response" /\ completion.choices # <<>>
NarrativeFailed ==
    \/ completion.kind = "error"
    \/ completion.kind = "response" /\ completion.choices = <<>>

Count(ev) == Cardinality({ i \in DOMAIN trace : trace[i] = ev })
Before(a, i) == \E j \in 1..(i - 1) : trace[j] = a

Returned == pc = "done"

PlanFields ==
    {"travel_plan", "weather_forecast", "local_insights", "flight_options",
     "hotel_options"}

\* C1: whenever generate_travel_plan returned, plan_trip returns status
\* "success", whatever the weather, insights, flight and hotel backends did.
C1_SuccessWheneverNarrative ==
    (Returned /\ NarrativeReturned) => result.status = "success"

\* C1 witness: a success although all four backend lookups failed.
C1_Witness ==
    /\ Returned /\ NarrativeReturned
    /\ \A l \in Lookups : LookupFailed(l)
    /\ result.status = "success"

\* C2: when generate_travel_plan fails, the result has status "error" and a
\* non-empty message, and search_flights and search_hotels are never invoked.
C2_NarrativeFailureIsFatal ==
    NarrativeFailed =>
        /\ Returned
        /\ result.status = "error"
        /\ "message" \in DOMAIN result
        /\ result.message # ""
        /\ Count("flights_begin") = 0 /\ Count("hotels_begin") = 0
        /\ \A i \in DOMAIN backendCalls :
               backendCalls[i].tool \notin {"search_flights", "search_hotels"}

\* C2 witness: a plan_trip that ended on a failed narrative generation.
C2_Witness ==
    /\ Returned /\ NarrativeFailed
    /\ result.status = "error"
    /\ Len(gptCalls) = 1

\* The payload a lookup is expected to hand on: the body fetched, or None.
Fetched(l) == IF Succeeded(answers[l]) THEN answers[l].body ELSE None

ExactlyOneFailed ==
    /\ Answered("weather") /\ Answered("insights")
    /\ LookupFailed("weather") # LookupFailed("insights")

\* C3: when exactly one of the weather and insights lookups fails, narrative
\* generation is invoked once with the fetched payload and None for the failed
\* one, and the plan returned carries the same two values.
C3_PartialDataIsPassedOn ==
    (ExactlyOneFailed /\ pc \notin {"idle", "gather"}) =>
        /\ Len(gptCalls) = 1
        /\ gptCalls[1].weather_data = Fetched("weather")
        /\ gptCalls[1].local_insights = Fetched("insights")
        /\ (Returned /\ result.status = "success") =>
               /\ result.weather_forecast = Fetched("weather")
               /\ result.local_insights = Fetched("insights")

\* C3 witness: a plan with the weather missing and the insights fetched.
C3_Witness ==
    /\ Returned /\ result.status = "success"
    /\ LookupFailed("weather") /\ LookupSucceeded("insights")
    /\ result.weather_forecast = None
    /\ result.local_insights = "insights:great city"
    /\ gptCalls[1].weather_data = None

\* C4 (as claimed): status "success" implies the narrative is present and
\* non-empty; status "error" implies a non-empty message and none of the
\* narrative, weather, insights, flight and hotel fields.
C4_ResultInvariant ==
    Returned =>
        /\ result.status \in {"success", "error"}
        /\ result.status = "success" =>
               /\ "travel_plan" \in DOMAIN result
               /\ result.travel_plan # None
               /\ result.travel_plan # ""
        /\ result.status = "error" =>
               /\ "message" \in DOMAIN result
               /\ result.message # ""
               /\ DOMAIN result \cap PlanFields = {}

\* C5: narrative generation begins only after both the weather and the
\* insights lookup have ended, and the flight and hotel searches begin only
\* after narrative generation has returned.
C5_Ordering ==
    \A i \in DOMAIN trace :
        /\ trace[i] = "gpt_begin" =>
               Before("weather_end", i) /\ Before("insights_end", i)
        /\ trace[i] \in {"flights_begin", "hotels_begin"} =>
               Before("gpt_return", i)

\* C5 witness: a whole plan_trip, through the hotel search.
C5_Witness ==
    /\ Returned
    /\ Count("gpt_begin") = 1 /\ Count("flights_begin") = 1
    /\ Count("hotels_begin") = 1

InFlight(t) == t \in {"awaiting", "done"}

\* C6: the weather and the insights lookup are dispatched together: neither
\* ends before the other has started, and plan_trip goes on only when both
\* have ended.
C6_ConcurrentLookups ==
    /\ wTask = "done" => InFlight(iTask)
    /\ iTask = "done" => InFlight(wTask)
    /\ pc \in {"gpt", "flights", "hotels", "done"} =>
           wTask = "done" /\ iTask = "done"

\* C6 witness: both lookups are awaiting their backend at the same time.
C6_Witness ==
    pc = "gather" /\ wTask = "awaiting" /\ iTask = "awaiting"

IsList(l) == l \in {"flights", "hotels"}

\* C7: none of the four lookups raises: on a backend failure get_weather_data
\* and get_travel_insights return None, search_flights and search_hotels return
\* an empty list, and on success each returns the backend's payload unchanged.
C7_LookupsNeverRaise ==
    \A l \in Lookups :
        Answered(l) =>
            /\ lookups[l].kind = "return"
            /\ Succeeded(answers[l]) => lookups[l].value = answers[l].body
            /\ (~Succeeded(answers[l]) /\ IsList(l)) => lookups[l].value = <<>>
            /\ (~Succeeded(answers[l]) /\ ~IsList(l)) => lookups[l].value = None

\* C7 witness: every kind of failure has been absorbed by some lookup of one
\* plan_trip, and one lookup has passed a payload on.
C7_Witness ==
    /\ answers["weather"].kind = "timeout"
    /\ answers["insights"].kind = "refused"
    /\ answers["flights"].kind = "http" /\ answers["flights"].status = 500
    /\ LookupSucceeded("hotels")
    /\ lookups["hotels"] = Return(<<"HT001", "HT002">>)

-----------------------------------------------------------------------------
(* MCPClient.call_tool *)

\* C8 (as claimed): call_tool never raises to its caller; on status 200 it
\* returns the parsed payload.
C8_CallToolNeverRaises ==
    \A i \in DOMAIN toolResults :
        /\ toolResults[i].outcome.kind = "return"
        /\ Succeeded(toolResults[i].answer) =>
               toolResults[i].outcome.value = toolResults[i].answer.body

\* The two error records of call_tool's handlers, tagged with the backend name
\* and the cause.
TaggedLogs(t) ==
    { "Network error calling MCP " \o t.server \o ": " \o Str(t.outcome.exc),
      "Unexpected error calling MCP " \o t.server \o ": " \o Str(t.outcome.exc) }

\* C8 (amended): on status 200 with a JSON body call_tool returns the parsed
\* payload; on a non-200 status it raises Exception("MCP server error:
\* <status>") and on a transport failure or an unparsable body it re-raises the
\* underlying error, each time after logging an error record that names the
\* backend and the cause.
C8_CallToolRaisesOnFailure ==
    \A i \in DOMAIN toolResults :
        LET t == toolResults[i] IN
        /\ Succeeded(t.answer) =>
               t.outcome = Return(t.answer.body) /\ t.logged = <<>>
        /\ ~Succeeded(t.answer) =>
               /\ t.outcome.kind = "raise"
               /\ t.logged # <<>>
               /\ t.logged[Len(t.logged)] \in TaggedLogs(t)
        /\ (t.answer.kind = "http" /\ t.answer.status # 200) =>
               t.outcome.exc = Exc("Exception",
                   <<"MCP server error: " \o ToString(t.answer.status)>>)
        /\ t.answer.kind = "timeout" => t.outcome.exc.type = "TimeoutError"
        /\ t.answer.kind = "refused" =>
               t.outcome.exc.type = "ClientConnectorError"

\* C8 witness: one call_tool has raised on status 500 and another has returned
\* a payload.
C8_Witness ==
    \E i, j \in DOMAIN toolResults :
        /\ toolResults[i].answer.kind = "http"
        /\ toolResults[i].answer.status = 500
        /\ toolResults[i].outcome.kind = "raise"
        /\ Succeeded(toolResults[j].answer)
        /\ toolResults[j].outcome.kind = "return"

-----------------------------------------------------------------------------
(* The booking path *)

BookTripEnded == bpc = "responded"

IsErrorMap(o) ==
    /\ o.kind = "return"
    /\ DOMAIN o.value = {"status", "message"}
    /\ o.value.status = "error"

\* C9: book_trip posts exactly one call, the booking backend's book_trip, and
\* never raises: it returns the backend's confirmation unchanged, or, when the
\* call failed, the map {status: "error", message: <the failure's message>}.
C9_BookTripPassThrough ==
    /\ bpc \in {"awaiting", "responded"} =>
           /\ Len(backendCalls) = 1
           /\ backendCalls[1].server = "booking"
           /\ backendCalls[1].tool = "book_trip"
           /\ backendCalls[1].parameters = booking_data
    /\ BookTripEnded =>
           /\ Len(toolResults) = 1
           /\ bookResult.kind = "return"
           /\ Succeeded(toolResults[1].answer) =>
                  bookResult.value = toolResults[1].answer.body
           /\ ~Succeeded(toolResults[1].answer) =>
                  /\ IsErrorMap(bookResult)
                  /\ bookResult.value.message = Str(toolResults[1].outcome.exc)

\* C9 witness: a book_trip whose confirmation was lost to a timeout after the
\* server had booked, and which returned the error map.
C9_Witness ==
    /\ BookTripEnded
    /\ server_pending.kind = "answer"
    /\ toolResults[1].answer.kind = "timeout"
    /\ bookResult = Return([status |-> "error", message |-> ""])

\* C10: a booking row is saved and a confirmation mail is scheduled or sent
\* only for a booking the backend reported as a success; when book_trip
\* returns status "error" the handler schedules nothing.
C10_NoBookingStateOnFailure ==
    /\ \A row \in db_bookings : row.id \in confirmations
    /\ \A i \in DOMAIN outbox : outbox[i].booking_id \in confirmations
    /\ \A i \in DOMAIN background_tasks :
           /\ "booking_id" \in DOMAIN background_tasks[i].booking
           /\ background_tasks[i].booking.booking_id \in confirmations
    /\ (BookTripEnded /\ IsErrorMap(bookResult)) => background_tasks = <<>>

\* C10 witness: after one booking that was saved and confirmed by mail, a
\* second one fails in the enhanced handler and leaves both stores as they were.
C10_Witness ==
    /\ nRequests = 2
    /\ endpoint = "book_enhanced_trip"
    /\ BookTripEnded /\ IsErrorMap(bookResult)
    /\ Cardinality(db_bookings) = 1 /\ Len(outbox) = 1
    /\ Cardinality(confirmations) = 1
    /\ background_tasks = <<>>

-----------------------------------------------------------------------------
(* The planning endpoints *)

DatesPassValidation(r) ==
    /\ r.start_date >= Today
    /\ r.end_date > r.start_date
    /\ r.end_date - r.start_date <= 365

\* C11: on every planning endpoint, orchestrator.plan_trip is invoked only
\* with a request whose dates pass validation: start not in the past, end
\* after start, span of at most 365 days.
C11_ValidatedBeforeOrchestration ==
    \A n \in DOMAIN planCalls : DatesPassValidation(planCalls[n])

Validated == validation # NoAnswer

\* C12: validate_dates rejects with the "past" reason a start before today,
\* otherwise with the "after" reason an end that is not after the start,
\* otherwise with a third reason a span of more than 365 days, and accepts
\* with no message anything else.
C12_ValidateDates ==
    Validated =>
        LET s == apiRequest.start_date
            e == apiRequest.end_date
        IN  /\ s < Today => validation = <<FALSE, PastReason>>
            /\ (s >= Today /\ e <= s) => validation = <<FALSE, OrderReason>>
            /\ (s >= Today /\ e > s /\ e - s > 365) =>
                   /\ validation[1] = FALSE
                   /\ validation[2] \notin {None, "", PastReason, OrderReason}
            /\ (s >= Today /\ e > s /\ e - s <= 365) =>
                   validation = <<TRUE, None>>

\* C12 witness: a span of exactly 365 days was validated and accepted.
C12_Witness ==
    /\ Validated
    /\ apiRequest.start_date >= Today
    /\ apiRequest.end_date - apiRequest.start_date = 365
    /\ validation[1] = TRUE

ApiNarrativeGenerated ==
    /\ planCompletion.kind = "response"
    /\ planCompletion.choices # <<>>
    /\ Truthy(planCompletion.choices[1])

\* C13: whenever the narrative was generated for a valid request, the
\* planning endpoint answers with the successful plan, whatever else fails
\* while the response is assembled.
C13_DegradedNotFailed ==
    ( /\ apc = "responded"
      /\ planCalls # <<>>
      /\ DatesPassValidation(apiRequest)
      /\ ApiNarrativeGenerated )
    => /\ apiResponse.status = 200
       /\ apiResponse.body.status = "success"

-----------------------------------------------------------------------------
(* The cache manager *)

\* Caller c has run the block of method op and is about to leave it.
Leaving(c, op) == callers[c].pc = "release" /\ callers[c].op = op

\* Caller c is inside a method's `async with self._lock` block.
InBlock(c) ==
    callers[c].pc \in {"lookup", "check", "store", "delete", "clear", "scan",
                       "sweep", "release"}

\* C14: get(k) returns the value of the most recent set(k, v, ttl) exactly
\* while the time is before that set's time + ttl; past it, or when k was
\* never set, it returns None, and the get leaves no expired entry of k.
C14_GetReturnsLiveEntry ==
    \A c \in Callers :
        Leaving(c, "get") =>
            LET w == lastSet[callers[c].key]
                live == w # NoWrite /\ callers[c].at < w.at + w.ttl_seconds
            IN  /\ callers[c].result =
                       Return(IF live THEN w.value ELSE None)
                /\ ~live => callers[c].key \notin DOMAIN cache
                /\ live => /\ callers[c].key \in DOMAIN cache
                           /\ cache[callers[c].key].data = w.value

\* C14 witness: a get that returned the value of a set made earlier, in the
\* last second before its expiry.
C14_Witness ==
    \E c \in Callers :
        /\ Leaving(c, "get")
        /\ callers[c].result.value # None
        /\ callers[c].at > lastSet[callers[c].key].at
        /\ callers[c].at + 1 =
               lastSet[callers[c].key].at + lastSet[callers[c].key].ttl_seconds

\* C15: delete(k) makes k absent and leaves every other key's entry as it
\* was; clear() makes every key absent.
C15_DeleteAndClear ==
    \A c \in Callers :
        /\ Leaving(c, "delete") =>
               /\ DOMAIN cache = DOMAIN committed \ {callers[c].key}
               /\ \A j \in DOMAIN cache : cache[j] = committed[j]
        /\ Leaving(c, "clear") => DOMAIN cache = {}

\* C15 witness: a delete of a stored key that left another key stored.
C15_Witness ==
    \E c \in Callers :
        /\ Leaving(c, "delete")
        /\ callers[c].key \in DOMAIN committed
        /\ DOMAIN cache # {}

\* C16: the locked blocks of concurrent callers never overlap, and every get
\* reads the store as the completed operations left it; no del meets a key
\* that another caller removed meanwhile.
C16_MutualExclusion ==
    /\ \A c, d \in Callers : InBlock(c) /\ InBlock(d) => c = d
    /\ \A c \in Callers : InBlock(c) => lock = c
    /\ \A c \in Callers :
           callers[c].pc \in {"lookup", "check"} =>
               /\ DOMAIN cache = DOMAIN committed
               /\ \A k \in DOMAIN cache : cache[k] = committed[k]
    /\ \A c \in Callers : callers[c].result.kind # "raise"

\* C16 witness: one caller is half way through a sweep while another, a get,
\* waits for the lock.
C16_Witness ==
    \E c, d \in Callers :
        /\ callers[c].pc = "sweep"
        /\ DOMAIN cache # DOMAIN committed
        /\ callers[d].pc = "acquire"
        /\ callers[d].op = "get"

Expired(k) == k \in DOMAIN cache /\ now >= cache[k].expires_at

\* C17: an expired entry does not stay in the store for ever, even when its
\* key is never read again.
C17_ExpiredEventuallyEvicted ==
    \A k \in CacheKeys : Expired(k) ~> ~Expired(k)

-----------------------------------------------------------------------------
(* Cache keys *)

KeyFunctions ==
    {"cache_key_for_weather", "cache_key_for_insights", "cache_key_for_flights"}

\* C18: identical logical queries get the same key: deriving again with the
\* same arguments gives the same key, and the key does not depend on the
\* order of the keywords nor on passing a parameter by position or by name.
C18_SameQuerySameKey ==
    \A m, n \in DOMAIN derivations :
        ( /\ derivations[m].fn = derivations[n].fn
          /\ derivations[m].query = derivations[n].query )
        => derivations[m].key = derivations[n].key

\* C19: with an injective hash, two backend queries that differ in the
\* operation or in any of their parameters get different keys.
C19_DifferentQueryDifferentKey ==
    \A m, n \in DOMAIN derivations :
        ( /\ derivations[m].fn \in KeyFunctions
          /\ derivations[n].fn \in KeyFunctions
          /\ \/ derivations[m].fn # derivations[n].fn
             \/ derivations[m].query # derivations[n].query )
        => derivations[m].key # derivations[n].key

-----------------------------------------------------------------------------
(* The recommendation operations *)

\* Caller c repeats the last call that returned, within the TTL window that
\* began when it returned.
RepeatsWithinTtl(c) ==
    /\ recCallers[c].op # "none"
    /\ lastDone.op = recCallers[c].op
    /\ lastDone.query = recCallers[c].query
    /\ lastDone.at <= recCallers[c].started
    /\ recCallers[c].started < lastDone.at + 3600

\* C20: for each recommendation operation, a call with the full argument set
\* of a call that returned less than the TTL ago makes no language-model call
\* and returns the cached result; a call served from an entry has the
\* arguments of the call that made the entry.
C20_RepeatedCallIsCached ==
    \A c \in RecCallers :
        /\ (recCallers[c].pc = "llm" /\ recCallers[c].started > lastDone.at)
               => ~RepeatsWithinTtl(c)
        /\ recCallers[c].hit =>
               memo[WrapperKey(recCallers[c].op, recCallers[c].call)].query
                   = recCallers[c].query

-----------------------------------------------------------------------------
(* The personalization score *)

Bonus(condition, points) == IF condition THEN points ELSE 0

\* The sum of the bonuses, the activities bonus given when `earned` holds.
BonusSum(s, earned) ==
    Bonus(DOMAIN s.preferences # {}, 30)
    + Bonus(Cardinality(DOMAIN s.preferences) > 5, 20)
    + Bonus(earned, 15)
    + Bonus("accommodation" \in DOMAIN s.preferences, 10)
    + Bonus("budget" \in DOMAIN s.preferences, 10)
    + Bonus(~s.travel_history.is_none /\ s.travel_history.entries # <<>>, 15)
    + Bonus(~s.travel_history.is_none /\ Len(s.travel_history.entries) > 3, 10)

Capped(n) == IF n > 100 THEN 100 ELSE n

ActivitiesPresent(s) == "activities" \in DOMAIN s.preferences
ActivitiesNonEmpty(s) ==
    ActivitiesPresent(s) /\ s.preferences["activities"] # <<>>

\* C21 (as stated): the score is min(100, sum of the bonuses), the
\* activities bonus given whenever the activities category is present.
C21_ScoreFormulaByPresence ==
    \A i \in DOMAIN scored :
        scored[i].score = Capped(BonusSum(scored[i], ActivitiesPresent(scored[i])))

\* C21 (amended): the score is min(100, sum of the bonuses), the activities
\* bonus given when the activities category is present with a non-empty
\* value; it is 0 for empty preferences without history and lies in [0, 100].
C21_ScoreFormula ==
    \A i \in DOMAIN scored :
        /\ scored[i].score = Capped(BonusSum(scored[i], ActivitiesNonEmpty(scored[i])))
        /\ scored[i].score >= 0 /\ scored[i].score <= 100
        /\ (DOMAIN scored[i].preferences = {}
              /\ (scored[i].travel_history.is_none
                    \/ scored[i].travel_history.entries = <<>>))
               => scored[i].score = 0

\* The cap applies: six keys with the three categories and four trips.
C21_Witness ==
    \E i \in DOMAIN scored :
        /\ BonusSum(scored[i], ActivitiesNonEmpty(scored[i])) = 110
        /\ scored[i].score = 100

\* C22: a key added to the preferences or a trip added to the history never
\* lowers the score, and a first trip added to no history raises it.
C22_ScoreMonotone ==
    Len(scored) = 2 =>
        /\ scored[2].score >= scored[1].score
        /\ (~ListTruthy(scored[1].travel_history)
              /\ ListTruthy(scored[2].travel_history))
               => scored[2].score > scored[1].score

\* A first trip is added to preferences that already score 85.
C22_Witness ==
    /\ Len(scored) = 2
    /\ scored[1].score = 85
    /\ ~ListTruthy(scored[1].travel_history)
    /\ ListTruthy(scored[2].travel_history)
    /\ scored[2].score = 100

-----------------------------------------------------------------------------
(* The similar-destinations parser *)

\* The lines of the last response with the blanks around them removed.
Trimmed == [i \in DOMAIN parsed.response |-> Strip(parsed.response[i])]

IndicatorAt(i) ==
    \E j \in DOMAIN Trimmed[i] : KeywordsIn(Lower(Trimmed[i][j])) # {}

\* The positions of the indicator lines, in order.
RECURSIVE IndicatorsFrom(_)
IndicatorsFrom(i) ==
    IF i > Len(parsed.response) THEN <<>>
    ELSE IF IndicatorAt(i) THEN <<i>> \o IndicatorsFrom(i + 1)
    ELSE IndicatorsFrom(i + 1)

Indicators == IndicatorsFrom(1)

\* The position after the last line of the k-th record.
RecordEnd(k) ==
    IF k < Len(Indicators) THEN Indicators[k + 1] ELSE Len(parsed.response) + 1

NonBlank(line) == line # <<>>

\* C23: the parse has one record per indicator line, in order; a record's
\* name is its indicator line and its details are the non-blank lines up to
\* the next indicator line, in order (lines taken without the blanks around
\* them); nothing before the first indicator line is kept.
C23_ParseSegmentsByIndicator ==
    /\ Len(parsed.destinations) = Len(Indicators)
    /\ \A k \in DOMAIN Indicators :
         /\ parsed.destinations[k].name = Trimmed[Indicators[k]]
         /\ parsed.destinations[k].details =
                SelectSeq(SubSeq(Trimmed, Indicators[k] + 1, RecordEnd(k) - 1),
                          NonBlank)
    /\ Indicators = <<>> => parsed.destinations = <<>>

\* Two records, the first with one line of details, after a discarded
\* leading line.
C23_Witness ==
    /\ Len(parsed.response) = 4
    /\ Indicators = <<2, 4>>
    /\ NonBlank(Trimmed[1])
    /\ Len(parsed.destinations) = 2
    /\ Len(parsed.destinations[1].details) = 1

-----------------------------------------------------------------------------
(* get_similar_destinations *)

SimilarDone(c) ==
    recCallers[c].op = "get_similar_destinations" /\ recCallers[c].pc = "done"

\* The language model's call raised, or its answer could not be parsed.
SimilarFailed(c) ==
    \/ recCallers[c].answer.kind = "raise"
    \/ recCallers[c].answer.kind = "return" /\ recCallers[c].answer.value.is_none

\* C24: get_similar_destinations always returns: the empty list when the
\* language-model call or the parsing failed, a list of name/details records
\* otherwise.
C24_SimilarNeverPropagates ==
    \A c \in RecCallers :
        SimilarDone(c) =>
            /\ recCallers[c].result.kind = "return"
            /\ SimilarFailed(c) => recCallers[c].result.value = <<>>
            /\ ~SimilarFailed(c) =>
                  \A i \in DOMAIN recCallers[c].result.value :
                      DOMAIN recCallers[c].result.value[i] = {"name", "details"}

\* The language-model call raised and the caller got the empty list.
C24_Witness ==
    \E c \in RecCallers :
        /\ SimilarDone(c)
        /\ recCallers[c].answer.kind = "raise"
        /\ recCallers[c].result = Return(<<>>)

\* The answer had no text, the parse raised and the caller got the empty
\* list; the answer had text and the caller got a record.
C24_ParseFailureReached ==
    \E c \in RecCallers :
        /\ SimilarDone(c)
        /\ recCallers[c].answer.kind = "return"
        /\ recCallers[c].answer.value.is_none
        /\ recCallers[c].result = Return(<<>>)

C24_RecordsReached ==
    \E c \in RecCallers :
        /\ SimilarDone(c) /\ ~SimilarFailed(c)
        /\ Len(recCallers[c].result.value) = 1

-----------------------------------------------------------------------------
(* cached_result and failures *)

Wrapped(c) == Decorated(recCallers[c].op)

\* The wrapped function of caller c raises in this step.
WrappedRaises(c) ==
    /\ Wrapped(c)
    /\ recCallers[c].pc = "llm"
    /\ recCallers'[c].pc = "done"
    /\ recCallers'[c].answer.kind = "raise"

-----------------------------------------------------------------------------
(* cached_result and overlapping calls *)

\* Callers c and d are both awaiting the wrapped function for calls with
\* identical arguments.
BothAwaiting(c, d) ==
    /\ c # d
    /\ Wrapped(c) /\ Wrapped(d)
    /\ recCallers[c].pc = "llm" /\ recCallers[d].pc = "llm"
    /\ recCallers[c].call = recCallers[d].call

\* C28: of the calls with identical arguments that overlap, at most one is
\* awaiting the wrapped function.
C28_OverlappingCallsInvokeOnce ==
    \A c, d \in RecCallers : ~BothAwaiting(c, d)

-----------------------------------------------------------------------------
(* MCPClient: health_check and sessions *)

\* C25: health_check returns, never raises; it returns True exactly when
\* the probe was answered with status 200.
C25_HealthCheckNeverThrows ==
    health.client # "none" =>
        /\ health.result.kind = "return"
        /\ health.result.value = TRUE
             <=> (health.probe.kind = "http" /\ health.probe.status = 200)

\* No response arrived and the check returned False.
C25_Witness ==
    /\ health.client # "none"
    /\ health.probe.kind = "refused"
    /\ health.result = Return(FALSE)

C25_HealthyReached ==
    health.client # "none" /\ health.result = Return(TRUE)

C25_OtherStatusReached ==
    /\ health.client # "none"
    /\ health.probe.kind = "http" /\ health.probe.status = 204
    /\ health.result = Return(FALSE)

OpenSessionsOf(c) ==
    { i \in DOMAIN sessions : sessions[i].owner = c /\ ~sessions[i].closed }

\* C26: no session is held by two clients, a client has at most one open
\* session, and the clients of a discarded orchestrator have no open session.
C26_SessionsOwnedAndReleased ==
    /\ \A c, d \in Clients : (c # d /\ held[c] # 0) => held[c] # held[d]
    /\ \A c \in Clients : held[c] # 0 => sessions[held[c]].owner = c
    /\ \A c \in Clients : Cardinality(OpenSessionsOf(c)) <= 1
    /\ discarded => \A c \in Clients : OpenSessionsOf(c) = {}

-----------------------------------------------------------------------------
(* ConnectionManager *)

Active(w) == \E i \in DOMAIN active_connections : active_connections[i] = w

\* The active connections opened under user id u.
ActiveUnder(u) == { w \in WebSockets : Active(w) /\ sockets[w].user_id = u }

\* C29: every socket a user id is mapped to is active, and every user id
\* with an active connection opened under it is mapped to one of them.
C29_UserConnectionsConsistent ==
    /\ \A u \in DOMAIN user_connections : Active(user_connections[u])
    /\ \A u \in UserIds \ {None} :
         ActiveUnder(u) # {} =>
             /\ u \in DOMAIN user_connections
             /\ user_connections[u] \in ActiveUnder(u)

\* C30: broadcast does not raise, and when it has returned, no connection
\* whose send failed is active and every connection whose send succeeded
\* is active unless its own handler disconnected it.
C30_BroadcastCompletes ==
    /\ broadcast.pc # "raised"
    /\ broadcast.pc = "done" =>
         /\ \A i \in DOMAIN broadcast.disconnected :
                ~Active(broadcast.disconnected[i])
         /\ \A i \in DOMAIN broadcast.sent :
                sockets[broadcast.sent[i]].state = "connected"
                    => Active(broadcast.sent[i])

====
